---- MODULE Spec2Model ----
(***************************************************************************)
(* Tick-based elevator simulation engine (elevator_saga/server/simulator). *)
(* The engine state is one record `sim`; every handler of                  *)
(* ElevatorSimulation is a function from engine states to engine states,   *)
(* and the actions apply these functions under the simulation lock.        *)
(***************************************************************************)
EXTENDS Integers, Sequences, FiniteSets, TLC

VARIABLES
    sim,            \* the ElevatorSimulation object (state, traffic_queue, flags)
    traffic_files,  \* the traffic case documents found at construction
    lock,           \* self.lock: "free", or the thread that holds it
    pc,             \* position of the thread running step()
    step_left,      \* ticks the running step() still has to process
    step_events,    \* new_events of the running (or last) step()
    events_start,   \* events_start of the running _process_tick()
    last,           \* the last call that ended (or blocked) and what it returned
    cmds,           \* number of controller/administrative calls issued so far
    req,            \* the arguments of the last controller/administrative call
    resp,           \* the SimulationStateResponse a get_state route is serving
    dashboard       \* web_dashboard: controller processes, _controller_process,
                    \* _controller_lock and the request threads

vars == <<sim, traffic_files, lock, pc, step_left, step_events, events_start, last, cmds,
          req, resp, dashboard>>

\* Python's None for optional integers (next_target_floor, elevator_id, event fields)
None == -1

----------------------------------------------------------------------------
\* Bounds of the model

\* controller/administrative calls per run
MaxCmds == 2
\* largest num_ticks passed to step()
MaxStepN == 2
\* largest passenger id handed out (traffic entries and add_passenger)
MaxPassengerId == 3
\* ticks stepped while no traffic case is loaded (every such step raises)
MaxUnloadedTick == 2
\* largest since_tick passed to get_events
MaxSince == 1

----------------------------------------------------------------------------
\* core/models: enumerations and derived accessors

STOPPED == "stopped"
START_UP == "start_up"
CONSTANT_SPEED == "constant_speed"
START_DOWN == "start_down"

DirUp == "up"
DirDown == "down"
DirStopped == "stopped"

WAITING == "waiting"
IN_ELEVATOR == "in_elevator"
COMPLETED == "completed"

UP_BUTTON_PRESSED == "up_button_pressed"
DOWN_BUTTON_PRESSED == "down_button_pressed"
PASSING_FLOOR == "passing_floor"
STOPPED_AT_FLOOR == "stopped_at_floor"
IDLE == "idle"
PASSENGER_BOARD == "passenger_board"
PASSENGER_ALIGHT == "passenger_alight"

\* PassengerInfo.status: derived from the two tick fields, 0 meaning unset
status(p) ==
    IF p.dropoff_tick > 0 THEN COMPLETED
    ELSE IF p.pickup_tick > 0 THEN IN_ELEVATOR
    ELSE WAITING

\* PassengerInfo.wait_time and system_time of a completed passenger
wait_time(p) == p.pickup_tick - p.arrive_tick

system_time(p) == p.dropoff_tick - p.arrive_tick

\* ElevatorState.target_floor_direction: target floor against current floor
target_floor_direction(e) ==
    IF e.current_floor < e.target_floor THEN DirUp
    ELSE IF e.current_floor > e.target_floor THEN DirDown
    ELSE DirStopped

\* ElevatorIndicators.set_direction
set_direction(e, d) ==
    [e EXCEPT !.up = (d = DirUp), !.down = (d = DirDown)]

\* Position.floor_up_position_add: add to the sub-floor offset and carry
\* whole floors (10 units each) into current_floor
floor_up_position_add(e, num) ==
    LET total == e.current_floor * 10 + e.floor_up_position + num
        fl == IF total >= 0 THEN total \div 10 ELSE -((-total + 9) \div 10)
    IN [e EXCEPT !.current_floor = fl, !.floor_up_position = total - fl * 10]

NewElevator(cap) ==
    [current_floor |-> 0, floor_up_position |-> 0, target_floor |-> 0,
     next_target_floor |-> None, run_status |-> STOPPED,
     up |-> FALSE, down |-> FALSE, passengers |-> <<>>, max_capacity |-> cap]

NewFloor == [up_queue |-> <<>>, down_queue |-> <<>>]

\* create_empty_simulation_state(elevators, floors, capacity)
create_empty_simulation_state(ne, nf, cap) ==
    [tick |-> 0,
     elevators |-> [i \in 0..(ne - 1) |-> NewElevator(cap)],
     floors |-> [f \in 0..(nf - 1) |-> NewFloor],
     passengers |-> <<>>,
     events |-> <<>>]

NumElevators(s) == Cardinality(DOMAIN s.elevators)
NumFloors(s) == Cardinality(DOMAIN s.floors)

Event(t, type, el, fl, pa, dir) ==
    [tick |-> t, type |-> type, elevator |-> el, floor |-> fl,
     passenger |-> pa, direction |-> dir]

\* _emit_event putting the event at the front of the log
_emit_event_Front(s, type, el, fl, pa, dir) ==
    [s EXCEPT !.events = <<Event(s.tick, type, el, fl, pa, dir)>> \o @]

\* ElevatorSimulation._emit_event / SimulationState.add_event: append an
\* event stamped with the current tick
_emit_event(s, type, el, fl, pa, dir) ==
    [s EXCEPT !.events = Append(@, Event(s.tick, type, el, fl, pa, dir))]

----------------------------------------------------------------------------
\* Python list slicing  q[:n]  and  q[n:]  (n may be negative)

SliceBound(q, n) ==
    IF n >= 0 THEN (IF n > Len(q) THEN Len(q) ELSE n)
    ELSE (IF Len(q) + n < 0 THEN 0 ELSE Len(q) + n)

PyTake(q, n) == SubSeq(q, 1, SliceBound(q, n))
PyDrop(q, n) == SubSeq(q, SliceBound(q, n) + 1, Len(q))

RECURSIVE SeqFilterOut(_, _)
\* [x for x in q if x not in S]
SeqFilterOut(q, S) ==
    IF q = <<>> THEN <<>>
    ELSE IF Head(q) \in S THEN SeqFilterOut(Tail(q), S)
    ELSE <<Head(q)>> \o SeqFilterOut(Tail(q), S)

RECURSIVE SeqRemoveFirst(_, _)
\* list.remove(x): drop the first occurrence of x
SeqRemoveFirst(q, x) ==
    IF q = <<>> THEN <<>>
    ELSE IF Head(q) = x THEN Tail(q)
    ELSE <<Head(q)>> \o SeqRemoveFirst(Tail(q), x)

Range(q) == {q[i] : i \in 1..Len(q)}

----------------------------------------------------------------------------
\* ElevatorSimulation: arrivals

\* traffic_queue, next_passenger_id and max_duration_ticks are only annotated
\* in the class body: they exist once reset() has run, which the constructor
\* does only when it finds a traffic file. Reading one of them before that
\* raises AttributeError.
Unloaded(s) == s.max_duration_ticks = None

NewPassenger(id, origin, destination, t) ==
    [id |-> id, origin |-> origin, destination |-> destination,
     arrive_tick |-> t, pickup_tick |-> 0, dropoff_tick |-> 0,
     elevator_id |-> None]

\* the iteration stamping the passenger with the scheduled tick of its entry
AdmitHeadScheduled(s) ==
    LET te == Head(s.traffic_queue)
        s1 == [s EXCEPT !.traffic_queue = Tail(@)]
        p == NewPassenger(te.id, te.origin, te.destination, te.tick)
        s2 == [s1 EXCEPT !.passengers = (te.id :> p) @@ @]
    IN IF te.destination > te.origin
       THEN _emit_event([s2 EXCEPT !.floors[te.origin].up_queue = Append(@, te.id)],
                        UP_BUTTON_PRESSED, None, te.origin, te.id, None)
       ELSE _emit_event([s2 EXCEPT !.floors[te.origin].down_queue = Append(@, te.id)],
                        DOWN_BUTTON_PRESSED, None, te.origin, te.id, None)

\* One iteration of the while loop of _process_arrivals: pop the head entry,
\* check the assertion, register the passenger, queue it, press the button.
\* The popped entry is gone from the queue before the assertion is evaluated.
AdmitHead(s) ==
    LET te == Head(s.traffic_queue)
        s1 == [s EXCEPT !.traffic_queue = Tail(@)]
        p == NewPassenger(te.id, te.origin, te.destination, s.tick)
        s2 == [s1 EXCEPT !.passengers = (te.id :> p) @@ @]
    IN IF te.destination > te.origin
       THEN _emit_event([s2 EXCEPT !.floors[te.origin].up_queue = Append(@, te.id)],
                        UP_BUTTON_PRESSED, None, te.origin, te.id, None)
       ELSE _emit_event([s2 EXCEPT !.floors[te.origin].down_queue = Append(@, te.id)],
                        DOWN_BUTTON_PRESSED, None, te.origin, te.id, None)

RECURSIVE _process_arrivals(_)
\* Result: the state left behind and whether the assertion raised.
_process_arrivals(s) ==
    IF Unloaded(s) THEN [st |-> s, raised |-> TRUE]
    ELSE IF s.traffic_queue # <<>> /\ Head(s.traffic_queue).tick <= s.tick
    THEN LET te == Head(s.traffic_queue)
         IN IF te.origin = te.destination
            THEN [st |-> [s EXCEPT !.traffic_queue = Tail(@)], raised |-> TRUE]
            ELSE _process_arrivals(AdmitHead(s))
    ELSE [st |-> s, raised |-> FALSE]

----------------------------------------------------------------------------
\* ElevatorSimulation: movement state machine

_calculate_distance_to_target(e) ==
    LET current_pos == e.current_floor * 10 + e.floor_up_position
        target_pos == e.target_floor * 10
    IN IF target_pos >= current_pos THEN target_pos - current_pos
       ELSE current_pos - target_pos

DecelerationThreshold == 3

_should_start_deceleration(e) ==
    _calculate_distance_to_target(e) <= DecelerationThreshold

_get_movement_speed(e) ==
    IF e.run_status = START_UP THEN 1
    ELSE IF e.run_status = START_DOWN THEN 1
    ELSE IF e.run_status = CONSTANT_SPEED THEN 2
    ELSE 0

_update_elevator_status(e) ==
    IF e.current_floor = e.target_floor /\ e.floor_up_position = 0
    THEN [e EXCEPT !.run_status = STOPPED]
    ELSE IF e.run_status = STOPPED THEN [e EXCEPT !.run_status = START_UP]
    ELSE IF e.run_status = START_UP THEN [e EXCEPT !.run_status = CONSTANT_SPEED]
    ELSE IF e.run_status = CONSTANT_SPEED /\ _should_start_deceleration(e)
    THEN [e EXCEPT !.run_status = START_DOWN]
    ELSE e

\* Tail of the loop body of _move_elevators: elevator i has moved to e2;
\* emit the floor-change and arrival events (old_floor and target_floor were
\* read before the move)
MoveEvents(s, i, e2, old_floor, target_floor) ==
    LET new_floor == e2.current_floor
        passing == old_floor # new_floor /\ new_floor # target_floor
        arrived == target_floor = new_floor /\ e2.floor_up_position = 0
        s1 == [s EXCEPT !.elevators[i] =
                 IF arrived THEN [e2 EXCEPT !.run_status = STOPPED] ELSE e2]
        ev1 == IF passing
               THEN <<Event(s.tick, PASSING_FLOOR, i, new_floor, None,
                            target_floor_direction(e2))>>
               ELSE <<>>
        ev2 == IF arrived
               THEN <<Event(s.tick, STOPPED_AT_FLOOR, i, new_floor, None, None)>>
               ELSE <<>>
    IN [s1 EXCEPT !.events = @ \o ev1 \o ev2]

\* Middle of the loop body: e1 is elevator i after _update_elevator_status
MoveBySpeed(s, i, e1) ==
    IF _get_movement_speed(e1) = 0
    THEN [s EXCEPT !.elevators[i] = e1]
    ELSE MoveEvents(s, i,
                    IF target_floor_direction(e1) = DirUp
                    THEN floor_up_position_add(e1, _get_movement_speed(e1))
                    ELSE floor_up_position_add(e1, -_get_movement_speed(e1)),
                    s.elevators[i].current_floor, s.elevators[i].target_floor)

\* the loop body marking the elevator STOPPED on its target floor whatever
\* its sub-floor offset is
MoveElevator_AnyOffset(s, i) ==
    IF s.elevators[i].target_floor = s.elevators[i].current_floor
       /\ s.elevators[i].next_target_floor = None
    THEN s
    ELSE IF s.elevators[i].target_floor = s.elevators[i].current_floor
    THEN [s EXCEPT !.elevators[i].run_status = STOPPED]
    ELSE MoveBySpeed(s, i, _update_elevator_status(s.elevators[i]))

\* Body of the for loop of _move_elevators for elevator i
MoveElevator(s, i) ==
    IF s.elevators[i].target_floor = s.elevators[i].current_floor
       /\ s.elevators[i].next_target_floor = None
    THEN s
    ELSE IF s.elevators[i].target_floor = s.elevators[i].current_floor
            /\ s.elevators[i].floor_up_position = 0
    THEN [s EXCEPT !.elevators[i].run_status = STOPPED]
    ELSE MoveBySpeed(s, i, _update_elevator_status(s.elevators[i]))

RECURSIVE MoveFrom(_, _)
MoveFrom(s, i) ==
    IF i >= NumElevators(s) THEN s ELSE MoveFrom(MoveElevator(s, i), i + 1)

_move_elevators(s) == MoveFrom(s, 0)

----------------------------------------------------------------------------
\* ElevatorSimulation: boarding / alighting resolver

RECURSIVE AlightEvents(_, _, _, _)
\* second loop of the alighting block: remove each alighting passenger from
\* the car and emit its PASSENGER_ALIGHT event
AlightEvents(s, i, fl, to_remove) ==
    IF to_remove = <<>> THEN s
    ELSE AlightEvents(
           _emit_event([s EXCEPT !.elevators[i].passengers =
                                      SeqRemoveFirst(@, Head(to_remove))],
                       PASSENGER_ALIGHT, i, fl, Head(to_remove), None),
           i, fl, Tail(to_remove))

RECURSIVE SelectAlighting(_, _, _)
SelectAlighting(plist, ptable, fl) ==
    IF plist = <<>> THEN <<>>
    ELSE (IF ptable[Head(plist)].destination = fl THEN <<Head(plist)>> ELSE <<>>)
         \o SelectAlighting(Tail(plist), ptable, fl)

\* a stop at which nobody leaves the car
AlightNobody(s, i) == s

Alight(s, i) ==
    LET fl == s.elevators[i].current_floor
        to_remove == SelectAlighting(s.elevators[i].passengers, s.passengers, fl)
        s1 == [s EXCEPT !.passengers =
                 [p \in DOMAIN @ |->
                    IF p \in Range(to_remove) THEN [@[p] EXCEPT !.dropoff_tick = s.tick]
                    ELSE @[p]]]
    IN AlightEvents(s1, i, fl, to_remove)

\* direction commitment that takes the pending target whatever the
\* indicators are
CommitDirectionAlways(e) ==
    LET e1 == IF e.next_target_floor # None
              THEN [e EXCEPT !.target_floor = e.next_target_floor,
                             !.next_target_floor = None]
              ELSE e
    IN set_direction(e1, target_floor_direction(e1))

\* direction commitment: if neither indicator is lit, take the pending target
\* and light the indicator of the direction of the active target
CommitDirection(e) ==
    IF ~e.up /\ ~e.down
    THEN LET e1 == IF e.next_target_floor # None
                   THEN [e EXCEPT !.target_floor = e.next_target_floor,
                                  !.next_target_floor = None]
                   ELSE e
         IN set_direction(e1, target_floor_direction(e1))
    ELSE e

\* the up block taking the passengers from the back of the up queue
UpBoardFromBack(e, floor) ==
    IF e.up
    THEN PyDrop(floor.up_queue, Len(floor.up_queue) - (e.max_capacity - Len(e.passengers)))
    ELSE <<>>

\* the up block without the test of the up indicator
UpBoardAnyIndicator(e, floor) ==
    PyTake(floor.up_queue, e.max_capacity - Len(e.passengers))

\* the up block without the capacity limit (takes the whole up queue)
UpBoardWholeQueue(e, floor) ==
    IF e.up THEN floor.up_queue ELSE <<>>

\* passengers_to_board after the up block: the head of the up queue that
\* fits into the car, if the up indicator is lit
UpBoard(e, floor) ==
    IF e.up THEN PyTake(floor.up_queue, e.max_capacity - Len(e.passengers)) ELSE <<>>

\* the up block forgetting to cut the boarded passengers off the queue
UpRestKeepsQueue(e, floor) == floor.up_queue

\* floor.up_queue after the up block
UpRest(e, floor) ==
    IF e.up THEN PyDrop(floor.up_queue, e.max_capacity - Len(e.passengers))
    ELSE floor.up_queue

\* the down block, up_board being what the up block took
DownBoard(e, floor, up_board) ==
    IF e.down /\ e.max_capacity - Len(e.passengers) - Len(up_board) > 0
    THEN PyTake(floor.down_queue, e.max_capacity - Len(e.passengers) - Len(up_board))
    ELSE <<>>

DownRest(e, floor, up_board) ==
    IF e.down /\ e.max_capacity - Len(e.passengers) - Len(up_board) > 0
    THEN PyDrop(floor.down_queue, e.max_capacity - Len(e.passengers) - Len(up_board))
    ELSE floor.down_queue

RECURSIVE BoardEachNoStamp(_, _, _, _)
\* boarding that forgets to stamp pickup_tick
BoardEachNoStamp(s, i, fl, to_board) ==
    IF to_board = <<>> THEN s
    ELSE BoardEachNoStamp(
           _emit_event([s EXCEPT !.passengers[Head(to_board)].elevator_id = i,
                                 !.elevators[i].passengers = Append(@, Head(to_board))],
                       PASSENGER_BOARD, i, fl, Head(to_board), None),
           i, fl, Tail(to_board))

RECURSIVE BoardEach(_, _, _, _)
\* the boarding loop: stamp pickup_tick and elevator_id, append to the car,
\* emit PASSENGER_BOARD
BoardEach(s, i, fl, to_board) ==
    IF to_board = <<>> THEN s
    ELSE BoardEach(
           _emit_event([s EXCEPT !.passengers[Head(to_board)].pickup_tick = s.tick,
                                 !.passengers[Head(to_board)].elevator_id = i,
                                 !.elevators[i].passengers = Append(@, Head(to_board))],
                       PASSENGER_BOARD, i, fl, Head(to_board), None),
           i, fl, Tail(to_board))

\* the boarding part without the IDLE branch
BoardAtNoIdle(s, i, e, fl, floor) ==
    BoardEach([s EXCEPT !.floors[fl] =
                 [up_queue |-> UpRest(e, floor),
                  down_queue |-> DownRest(e, floor, UpBoard(e, floor))]],
              i, fl, UpBoard(e, floor) \o DownBoard(e, floor, UpBoard(e, floor)))

\* Boarding part of the loop body: the queues are cut, then either the IDLE
\* event or the boarding of passengers_to_board
BoardAt(s, i, e, fl, floor) ==
    IF ~e.up /\ ~e.down
    THEN _emit_event(s, IDLE, i, fl, None, None)
    ELSE BoardEach([s EXCEPT !.floors[fl] =
                      [up_queue |-> UpRest(e, floor),
                       down_queue |-> DownRest(e, floor, UpBoard(e, floor))]],
                   i, fl, UpBoard(e, floor) \o DownBoard(e, floor, UpBoard(e, floor)))

CommitAt(s, i) == [s EXCEPT !.elevators[i] = CommitDirection(@)]

ResolveStop(s, i) ==
    BoardAt(s, i, s.elevators[i], s.elevators[i].current_floor,
            s.floors[s.elevators[i].current_floor])

\* a loop body that resolves the stop whatever the run-state is
StopElevatorAnyStatus(s, i) == ResolveStop(CommitAt(Alight(s, i), i), i)

\* Body of the for loop of _process_elevator_stops for elevator i
StopElevator(s, i) ==
    IF s.elevators[i].run_status # STOPPED THEN s
    ELSE ResolveStop(CommitAt(Alight(s, i), i), i)

RECURSIVE StopsFrom(_, _)
StopsFrom(s, i) ==
    IF i >= NumElevators(s) THEN s ELSE StopsFrom(StopElevator(s, i), i + 1)

_process_elevator_stops(s) == StopsFrom(s, 0)

----------------------------------------------------------------------------
\* ElevatorSimulation: force completion, metrics, commands

\* passengers_to_complete: ids whose dropoff_tick is still 0
Uncompleted(s) == {p \in DOMAIN s.passengers : s.passengers[p].dropoff_tick = 0}

\* Body of force_complete_remaining_passengers (inside the lock)
ForceCompleteBody(s) ==
    LET todo == Uncompleted(s)
    IN [s EXCEPT
          !.elevators = [i \in DOMAIN @ |->
                           [@[i] EXCEPT !.passengers = SeqFilterOut(@, todo)]],
          !.floors = [f \in DOMAIN @ |->
                        [up_queue |-> SeqFilterOut(@[f].up_queue, todo),
                         down_queue |-> SeqFilterOut(@[f].down_queue, todo)]],
          !.passengers = [p \in DOMAIN @ |->
                            IF p \in todo THEN [@[p] EXCEPT !.dropoff_tick = s.tick]
                            ELSE @[p]]]

\* completed_count returned by force_complete_remaining_passengers
ForceCompleteCount(s) == Cardinality(Uncompleted(s))

\* _calculate_metrics: done and total
MetricsDone(s) ==
    Cardinality({p \in DOMAIN s.passengers : status(s.passengers[p]) = COMPLETED})

MetricsTotal(s) == Cardinality(DOMAIN s.passengers)

RECURSIVE CompletedFrom(_, _)
\* the list `completed` of _calculate_metrics: the completed passengers among
\* ids, in the order of the dict (the order of registration, ascending id)
CompletedFrom(ptable, ids) ==
    IF ids = {} THEN <<>>
    ELSE LET id == CHOOSE x \in ids : \A y \in ids : x <= y
         IN (IF status(ptable[id]) = COMPLETED THEN <<ptable[id]>> ELSE <<>>)
            \o CompletedFrom(ptable, ids \ {id})

RECURSIVE wait_times(_)
wait_times(completed) ==
    IF completed = <<>> THEN <<>>
    ELSE <<wait_time(Head(completed))>> \o wait_times(Tail(completed))

RECURSIVE system_times(_)
system_times(completed) ==
    IF completed = <<>> THEN <<>>
    ELSE <<system_time(Head(completed))>> \o system_times(Tail(completed))

RECURSIVE InsertAsc(_, _)
InsertAsc(sorted_data, x) ==
    IF sorted_data = <<>> THEN <<x>>
    ELSE IF x < Head(sorted_data) THEN <<x>> \o sorted_data
    ELSE <<Head(sorted_data)>> \o InsertAsc(Tail(sorted_data), x)

RECURSIVE SortAsc(_)
\* sorted(data): ascending
SortAsc(data) ==
    IF data = <<>> THEN <<>>
    ELSE InsertAsc(SortAsc(PyTake(data, Len(data) - 1)), data[Len(data)])

\* the percentile helper reading the sample in the order of the passengers
percentile_Unsorted(data, p) ==
    IF data = <<>> THEN 0
    ELSE LET index == (Len(data) * p) \div 100
         IN data[(IF index < Len(data) - 1 THEN index ELSE Len(data) - 1) + 1]

\* the helper percentile of _calculate_metrics: int(len * p / 100) is the
\* floor of the quotient, Python lists are indexed from 0
percentile(data, p) ==
    IF data = <<>> THEN 0
    ELSE LET index == (Len(data) * p) \div 100
         IN SortAsc(data)[(IF index < Len(data) - 1 THEN index ELSE Len(data) - 1) + 1]

\* _calculate_metrics: the counts and the two percentiles (all zero with
\* nobody completed)
_calculate_metrics(s) ==
    [done |-> MetricsDone(s),
     total |-> MetricsTotal(s),
     p95_wait |-> percentile(wait_times(CompletedFrom(s.passengers, DOMAIN s.passengers)), 95),
     p95_system |-> percentile(system_times(CompletedFrom(s.passengers, DOMAIN s.passengers)), 95)]

\* elevator_go_to_floor without the range test of the floor
elevator_go_to_floor_AnyFloor(s, elevator_id, floor, immediate) ==
    IF 0 <= elevator_id /\ elevator_id < NumElevators(s)
    THEN IF immediate
         THEN [s EXCEPT !.elevators[elevator_id].target_floor = floor]
         ELSE [s EXCEPT !.elevators[elevator_id].next_target_floor = floor]
    ELSE s

\* elevator_go_to_floor writing the active target whatever immediate is
elevator_go_to_floor_Eager(s, elevator_id, floor, immediate) ==
    IF 0 <= elevator_id /\ elevator_id < NumElevators(s)
       /\ 0 <= floor /\ floor < NumFloors(s)
    THEN [s EXCEPT !.elevators[elevator_id].target_floor = floor]
    ELSE s

elevator_go_to_floor(s, elevator_id, floor, immediate) ==
    IF 0 <= elevator_id /\ elevator_id < NumElevators(s)
       /\ 0 <= floor /\ floor < NumFloors(s)
    THEN IF immediate
         THEN [s EXCEPT !.elevators[elevator_id].target_floor = floor]
         ELSE [s EXCEPT !.elevators[elevator_id].next_target_floor = floor]
    ELSE s

\* up / down are "none" (argument omitted), "true" or "false"
elevator_set_indicators(s, elevator_id, up, down) ==
    IF 0 <= elevator_id /\ elevator_id < NumElevators(s)
    THEN [s EXCEPT !.elevators[elevator_id].up = IF up = "none" THEN @ ELSE (up = "true"),
                   !.elevators[elevator_id].down = IF down = "none" THEN @
                                                   ELSE (down = "true")]
    ELSE s

\* add_passenger(origin, destination) with tick defaulted to the current tick
\* (reading next_passenger_id raises before anything is written when the
\* attribute does not exist)
add_passenger(s, origin, destination) ==
    LET id == s.next_passenger_id
        p == NewPassenger(id, origin, destination, s.tick)
        s1 == [s EXCEPT !.passengers = (id :> p) @@ @, !.next_passenger_id = @ + 1]
    IN IF Unloaded(s) THEN s
       ELSE IF origin \in DOMAIN s.floors
       THEN IF destination > origin
            THEN _emit_event([s1 EXCEPT !.floors[origin].up_queue = Append(@, id)],
                             UP_BUTTON_PRESSED, None, origin, None, None)
            ELSE _emit_event([s1 EXCEPT !.floors[origin].down_queue = Append(@, id)],
                             DOWN_BUTTON_PRESSED, None, origin, None, None)
       ELSE s1

----------------------------------------------------------------------------
\* ElevatorSimulation: reset and traffic case loading

\* The ElevatorSimulation object: its SimulationState and its own fields
Simulation(state, tq, md, np, fc, idx) ==
    [tick |-> state.tick, elevators |-> state.elevators, floors |-> state.floors,
     passengers |-> state.passengers, events |-> state.events,
     traffic_queue |-> tq, max_duration_ticks |-> md, next_passenger_id |-> np,
     force_completed |-> fc, current_traffic_index |-> idx]

\* Body of reset() (inside the lock): rebuild the state with the same
\* building, empty the traffic queue and zero the duration
ResetBody(s) ==
    Simulation(create_empty_simulation_state(NumElevators(s), NumFloors(s),
                                             s.elevators[0].max_capacity),
               <<>>, 0, 1, FALSE, s.current_traffic_index)

RECURSIVE InsertByTick(_, _)
\* insertion keeping entries of equal tick in document order (list.sort is stable)
InsertByTick(sorted, x) ==
    IF sorted = <<>> THEN <<x>>
    ELSE IF x.tick < Head(sorted).tick THEN <<x>> \o sorted
    ELSE <<Head(sorted)>> \o InsertByTick(Tail(sorted), x)

RECURSIVE SortByTick(_)
\* traffic_data.sort(key=tick): the sorted list is built from the back so
\* that equal ticks keep their document order
SortByTick(q) ==
    IF q = <<>> THEN <<>>
    ELSE InsertByTick(SortByTick(SubSeq(q, 1, Len(q) - 1)), q[Len(q)])

\* First half of load_current_traffic, before it calls reset(): the state is
\* replaced by an empty state of the case's building (outside the lock)
LoadBuilding(s, doc) ==
    Simulation(create_empty_simulation_state(doc.building.elevators, doc.building.floors,
                                             doc.building.elevator_capacity),
               s.traffic_queue, s.max_duration_ticks, s.next_passenger_id,
               s.force_completed, s.current_traffic_index)

\* Second half of load_current_traffic, after reset(): duration, flag, and
\* the sorted entries numbered from next_passenger_id
LoadTraffic(s, doc) ==
    LET sorted == SortByTick(doc.traffic)
    IN [s EXCEPT !.max_duration_ticks = doc.building.duration,
                 !.force_completed = FALSE,
                 !.traffic_queue = @ \o
                     [k \in 1..Len(sorted) |->
                        [id |-> s.next_passenger_id + k - 1, origin |-> sorted[k].origin,
                         destination |-> sorted[k].destination, tick |-> sorted[k].tick]],
                 !.next_passenger_id = @ + Len(sorted)]

\* load_current_traffic with the lock available
load_current_traffic(s, files) ==
    IF files = <<>> \/ s.current_traffic_index >= Len(files) THEN s
    ELSE LET doc == files[s.current_traffic_index + 1]
         IN LoadTraffic(ResetBody(LoadBuilding(s, doc)), doc)

\* ElevatorSimulation.__init__ followed by _load_traffic_files
Construct(files) ==
    LET s0 == Simulation(create_empty_simulation_state(2, 1, 1), <<>>, None, None, FALSE, 0)
    IN load_current_traffic(s0, files)

----------------------------------------------------------------------------
\* ElevatorSimulation.step

\* _process_tick after the tick counter was incremented
_process_tick(s) ==
    LET a == _process_arrivals(s)
    IN IF a.raised THEN a
       ELSE [st |-> _process_elevator_stops(_move_elevators(a.st)), raised |-> FALSE]

\* the condition of the duration cutoff in step()
CutoffDue(s) == ~Unloaded(s) /\ s.tick >= s.max_duration_ticks /\ ~s.force_completed

\* One iteration of the for loop of step(), the lock being held by step():
\* "ok", "raised" (the assertion propagates out of step) or "blocked" (step
\* calls force_complete_remaining_passengers, which waits for the lock that
\* step itself holds)
StepTick(s) ==
    LET r == _process_tick([s EXCEPT !.tick = @ + 1])
    IN IF r.raised THEN [st |-> r.st, outcome |-> "raised"]
       ELSE IF CutoffDue(r.st) THEN [st |-> r.st, outcome |-> "blocked"]
       ELSE [st |-> r.st, outcome |-> "ok"]

RECURSIVE StepRun(_, _)
StepRun(s, n) ==
    IF n = 0 THEN [st |-> s, outcome |-> "ok"]
    ELSE LET r == StepTick(s)
         IN IF r.outcome = "ok" THEN StepRun(r.st, n - 1) ELSE r

\* tick_events of the tick that takes s to r: self.state.events[events_start:]
\* with events_start the length of the log when _process_tick began
TickEvents(s, r) == PyDrop(r.events, Len(s.events))

RECURSIVE StepEvents(_, _)
\* new_events of step(n) started in s: the tick_events of its ticks, extended
\* tick by tick
StepEvents(s, n) ==
    IF n = 0 THEN <<>>
    ELSE LET r == StepTick(s)
         IN IF r.outcome = "ok"
            THEN TickEvents(s, r.st) \o StepEvents(r.st, n - 1)
            ELSE TickEvents(s, r.st)

----------------------------------------------------------------------------
\* web_dashboard: the controller process the dashboard starts and stops

\* number of processes Popen can create, and of request threads of the
\* dashboard (app.run(threaded=True))
MaxProcesses == 3
MaxDashboardThreads == 2

Processes == 1..MaxProcesses
DashboardThreads == 1..MaxDashboardThreads

\* _controller_process = None; _controller_lock not held
NoProcess == 0
NoThread == 0

\* The module after import: no process created yet, _controller_process is
\* None, _controller_lock is free, no request is being served. force and
\* waited are the locals of a running _stop_controller (its argument and the
\* Popen object whose wait() it has called), ret what the thread's last call
\* returned
DashboardAtImport ==
    [processes |-> [p \in Processes |-> "unborn"],
     _controller_process |-> NoProcess,
     _controller_lock |-> NoThread,
     pc |-> [t \in DashboardThreads |-> "idle"],
     force |-> [t \in DashboardThreads |-> FALSE],
     waited |-> [t \in DashboardThreads |-> NoProcess],
     ret |-> [t \in DashboardThreads |-> "none"]]

\* the processes that have been created and have not exited
AliveProcesses(d) == {p \in Processes : d.processes[p] = "alive"}

\* _controller_running(): False without a tracked process; a tracked
\* process that has exited (poll() is not None) is forgotten
_controller_running(d) ==
    IF d._controller_process = NoProcess THEN [d |-> d, running |-> FALSE]
    ELSE IF d.processes[d._controller_process] # "alive"
    THEN [d |-> [d EXCEPT !._controller_process = NoProcess], running |-> FALSE]
    ELSE [d |-> d, running |-> TRUE]

\* the process subprocess.Popen creates
NewProcess(d) ==
    CHOOSE p \in Processes :
      /\ d.processes[p] = "unborn"
      /\ \A q \in Processes : d.processes[q] = "unborn" => p <= q

\* Body of _start_controller inside "with _controller_lock": failure when a
\* controller is running; otherwise the simulator is reset (reset tells
\* whether client.reset() was reached) and a process is created and
\* tracked, unless Popen raises
_start_controller(d, popen_ok) ==
    IF _controller_running(d).running
    THEN [d |-> _controller_running(d).d, success |-> FALSE, reset |-> FALSE]
    ELSE IF popen_ok
    THEN [d |-> [_controller_running(d).d EXCEPT
                   !.processes[NewProcess(d)] = "alive",
                   !._controller_process = NewProcess(d)],
          success |-> TRUE, reset |-> TRUE]
    ELSE [d |-> _controller_running(d).d, success |-> FALSE, reset |-> TRUE]

\* End of _stop_controller once wait(timeout=5) on process p has returned or
\* raised TimeoutExpired: a process that exited in time is gone; after a
\* timeout a forced stop kills it and succeeds, an unforced stop returns
\* failure; the finally clause forgets the tracked process on every path
_stop_controller_wait(d, p, force, timed_out) ==
    [d |-> [d EXCEPT !.processes[p] = IF timed_out /\ ~force THEN @ ELSE "exited",
                     !._controller_process = NoProcess],
     success |-> ~timed_out \/ force]

----------------------------------------------------------------------------
\* Traffic case documents (inputs)

Entry(o, d, t) == [origin |-> o, destination |-> d, tick |-> t]

Building(ne, nf, cap, dur) ==
    [elevators |-> ne, floors |-> nf, elevator_capacity |-> cap, duration |-> dur]

\* run durations of the cases, in ticks
DurationA == 9
DurationB == 4

\* two cars of capacity 1, two floors, two passengers on floor 0 going up
\* (the document lists the later arrival first)
CaseA == [building |-> Building(2, 2, 1, DurationA),
          traffic |-> <<Entry(0, 1, 1), Entry(0, 1, 0)>>]

\* one car of capacity 2, three floors, passengers in both directions
CaseB == [building |-> Building(1, 3, 2, DurationB),
          traffic |-> <<Entry(2, 0, 2), Entry(0, 2, 1), Entry(0, 1, 1)>>]

\* the traffic directories: two cases, one case, no case at all
TrafficDirs == {<<CaseA, CaseB>>, <<CaseB>>, <<>>}

----------------------------------------------------------------------------
\* Actions: one per call of the transport layer or of a test driver

Tri == {"none", "true", "false"}

Ret(op, outcome, count) == [op |-> op, outcome |-> outcome, count |-> count]

\* arguments of a call: elevator id, floor, the immediate flag, since_tick
Req(elevator, floor, immediate, since) ==
    [elevator |-> elevator, floor |-> floor, immediate |-> immediate, since |-> since]

NoReq == Req(None, None, FALSE, None)

\* No get_state request is being served
NoResp == [phase |-> "none", live |-> FALSE, snap |-> <<>>, body |-> <<>>]

\* A call that replaces self.state (reset, load_current_traffic) while a
\* response still refers to the lists of the old state: these lists are not
\* written any more, the response will serialise them as they are now
Displaced(r, s) ==
    IF r.phase = "held" /\ r.live
    THEN [r EXCEPT !.live = FALSE,
                   !.body = [r.snap EXCEPT !.elevators = s.elevators, !.floors = s.floors,
                                           !.passengers = s.passengers]]
    ELSE r

Init ==
    /\ traffic_files \in TrafficDirs
    /\ sim = Construct(traffic_files)
    /\ lock = "free"
    /\ pc = "idle"
    /\ step_left = 0
    /\ step_events = <<>>
    /\ events_start = 0
    /\ last = Ret("init", "ok", 0)
    /\ cmds = 0
    /\ req = NoReq
    /\ resp = NoResp
    /\ dashboard = DashboardAtImport

\* step(n), run to its end by a transport thread: it returns the new events,
\* propagates the assertion failure (the lock is released on the way out), or
\* never returns because its call of force_complete_remaining_passengers
\* waits for the lock step() itself holds
Step(n) ==
    /\ lock = "free"
    /\ pc = "idle"
    /\ Unloaded(sim) => sim.tick + n <= MaxUnloadedTick
    /\ LET r == StepRun(sim, n)
       IN /\ sim' = r.st
          /\ lock' = IF r.outcome = "blocked" THEN "step" ELSE "free"
          /\ pc' = IF r.outcome = "blocked" THEN "blocked" ELSE "idle"
          /\ step_events' = IF r.outcome = "ok" THEN StepEvents(sim, n) ELSE <<>>
          /\ last' = Ret("step", r.outcome, n)
    /\ req' = NoReq
    /\ UNCHANGED <<dashboard, traffic_files, step_left, events_start, cmds, resp>>

\* elevator_go_to_floor: takes no lock
GoToFloor(e, f, imm) ==
    /\ sim' = elevator_go_to_floor(sim, e, f, imm)
    /\ last' = Ret("go_to_floor", "ok", 0)
    /\ cmds' = cmds + 1
    /\ req' = Req(e, f, imm, None)
    /\ UNCHANGED <<dashboard, traffic_files, lock, pc, step_left, step_events, events_start, resp>>

\* elevator_set_indicators: takes no lock
SetIndicators(e, up, down) ==
    /\ sim' = elevator_set_indicators(sim, e, up, down)
    /\ last' = Ret("set_indicators", "ok", 0)
    /\ cmds' = cmds + 1
    /\ req' = Req(e, None, FALSE, None)
    /\ UNCHANGED <<dashboard, traffic_files, lock, pc, step_left, step_events, events_start, resp>>

\* add_passenger: takes no lock
AddPassenger(o, d) ==
    /\ sim.next_passenger_id <= MaxPassengerId
    /\ sim' = add_passenger(sim, o, d)
    /\ last' = Ret("add_passenger", IF Unloaded(sim) THEN "raised" ELSE "ok",
                   sim.next_passenger_id)
    /\ cmds' = cmds + 1
    /\ req' = NoReq
    /\ UNCHANGED <<dashboard, traffic_files, lock, pc, step_left, step_events, events_start, resp>>

\* force_complete_remaining_passengers called by the transport layer
ForceComplete ==
    /\ lock = "free"
    /\ sim' = ForceCompleteBody(sim)
    /\ last' = Ret("force_complete", "ok", ForceCompleteCount(sim))
    /\ cmds' = cmds + 1
    /\ req' = NoReq
    /\ UNCHANGED <<dashboard, traffic_files, lock, pc, step_left, step_events, events_start, resp>>

\* reset() called by the transport layer
Reset ==
    /\ lock = "free"
    /\ sim' = ResetBody(sim)
    /\ last' = Ret("reset", "ok", 0)
    /\ cmds' = cmds + 1
    /\ req' = NoReq
    /\ resp' = Displaced(resp, sim)
    /\ UNCHANGED <<dashboard, traffic_files, lock, pc, step_left, step_events, events_start>>

\* next_traffic_round: returns False without a next file; otherwise moves the
\* index and loads the case. Only the reset() inside load_current_traffic
\* takes the lock: with the lock held by a blocked step, the index and the
\* rebuilt state are already written when the call starts to wait.
NextTrafficRound ==
    /\ IF traffic_files = <<>> \/ sim.current_traffic_index + 1 >= Len(traffic_files)
       THEN /\ sim' = sim
            /\ last' = Ret("next_traffic_round", "false", 0)
            /\ resp' = resp
       ELSE IF lock = "free"
       THEN /\ sim' = load_current_traffic(
                        [sim EXCEPT !.current_traffic_index = @ + 1], traffic_files)
            /\ last' = Ret("next_traffic_round", "true", 0)
            /\ resp' = Displaced(resp, sim)
       ELSE /\ sim' = LoadBuilding([sim EXCEPT !.current_traffic_index = @ + 1],
                                   traffic_files[sim.current_traffic_index + 2])
            /\ last' = Ret("next_traffic_round", "blocked", 0)
            /\ resp' = Displaced(resp, sim)
    /\ cmds' = cmds + 1
    /\ req' = NoReq
    /\ UNCHANGED <<dashboard, traffic_files, lock, pc, step_left, step_events, events_start>>

\* ElevatorSimulation.get_events(since_tick)
get_events(s, since_tick) == SelectSeq(s.events, LAMBDA e : e.tick > since_tick)

\* get_events: reads the log, takes no lock, writes nothing
GetEvents(since) ==
    /\ last' = Ret("get_events", "ok", Len(get_events(sim, since)))
    /\ cmds' = cmds + 1
    /\ req' = Req(None, None, FALSE, since)
    /\ UNCHANGED <<dashboard, sim, traffic_files, lock, pc, step_left, step_events, events_start,
                   resp>>

\* ElevatorSimulation.get_state: the SimulationStateResponse built inside the
\* lock. tick and the metrics are values; elevators, floors and passengers
\* are the lists and the dict of self.state themselves, not copies
get_state(s) ==
    [tick |-> s.tick, elevators |-> s.elevators, floors |-> s.floors,
     passengers |-> s.passengers, done |-> MetricsDone(s), total |-> MetricsTotal(s)]

\* What json_response writes for response r when the engine is in state s:
\* the values taken inside the lock, and the three containers as they are
\* when they are serialised
json_response(r, s) ==
    IF r.live
    THEN [r.snap EXCEPT !.elevators = s.elevators, !.floors = s.floors,
                        !.passengers = s.passengers]
    ELSE r.body

\* route get_state, first half: simulation.get_state() under the lock
GetStateRead ==
    /\ lock = "free"
    /\ resp.phase = "none"
    /\ resp' = [phase |-> "held", live |-> TRUE, snap |-> get_state(sim),
                body |-> get_state(sim)]
    /\ UNCHANGED <<dashboard, sim, traffic_files, lock, pc, step_left, step_events, events_start,
                   last, cmds, req>>

\* route get_state, second half: json_response(state), outside the lock;
\* the response object is dropped once it is written
GetStateSend ==
    /\ resp.phase = "held"
    /\ resp' = [NoResp EXCEPT !.phase = "sent"]
    /\ last' = Ret("get_state", "ok", 0)
    /\ UNCHANGED <<dashboard, sim, traffic_files, lock, pc, step_left, step_events, events_start,
                   cmds, req>>

\* arguments the engine has to ignore: unknown elevator, floor out of range
BadTargets(s) == {<<NumElevators(s), 0>>, <<0, NumFloors(s)>>, <<0, -1>>}

\* the calls of controllers and administrators, at most max per run
Commands(max) ==
    \/ /\ cmds < max
       /\ \E e \in DOMAIN sim.elevators, f \in DOMAIN sim.floors, imm \in BOOLEAN :
            GoToFloor(e, f, imm)
    \/ /\ cmds < max
       /\ \E b \in BadTargets(sim), imm \in BOOLEAN : GoToFloor(b[1], b[2], imm)
    \/ /\ cmds < max
       /\ \E e \in DOMAIN sim.elevators, up \in Tri, down \in Tri :
            SetIndicators(e, up, down)
    \/ /\ cmds < max
       /\ SetIndicators(NumElevators(sim), "true", "true")
    \/ /\ cmds < max
       /\ \E o \in DOMAIN sim.floors, d \in DOMAIN sim.floors : AddPassenger(o, d)
    \/ cmds < max /\ ForceComplete
    \/ cmds < max /\ Reset
    \/ cmds < max /\ NextTrafficRound
    \/ /\ cmds < max
       /\ \E since \in 0..MaxSince : GetEvents(since)

Next ==
    \/ \E n \in 1..MaxStepN : Step(n)
    \/ Commands(MaxCmds)

Spec == Init /\ [][Next]_vars

----------------------------------------------------------------------------
\* One car driven by go_to_floor commands alone, with one passenger to carry

\* go_to_floor calls per run of the single-car specification
MaxTripCmds == 4

DurationC == 11

\* one car of capacity 1, three floors, one passenger from floor 0 to floor 1
CaseC == [building |-> Building(1, 3, 1, DurationC),
          traffic |-> <<Entry(0, 1, 0)>>]

InitTrip ==
    /\ traffic_files = <<CaseC>>
    /\ sim = Construct(traffic_files)
    /\ lock = "free"
    /\ pc = "idle"
    /\ step_left = 0
    /\ step_events = <<>>
    /\ events_start = 0
    /\ last = Ret("init", "ok", 0)
    /\ cmds = 0
    /\ req = NoReq
    /\ resp = NoResp
    /\ dashboard = DashboardAtImport

NextTrip ==
    \/ \E n \in 1..MaxStepN : Step(n)
    \/ /\ cmds < MaxTripCmds
       /\ \E f \in DOMAIN sim.floors, imm \in BOOLEAN : GoToFloor(0, f, imm)

SpecTrip == InitTrip /\ [][NextTrip]_vars

----------------------------------------------------------------------------
\* A traffic case with a malformed entry (origin = destination), which the
\* loader accepts and the arrival phase rejects with its assertion

DurationD == 6

\* one car, three floors; at tick 2 a well-formed entry is followed by the
\* malformed one
CaseD == [building |-> Building(1, 3, 1, DurationD),
          traffic |-> <<Entry(0, 2, 1), Entry(0, 1, 2), Entry(1, 1, 2)>>]

InitFaulty ==
    /\ traffic_files = <<CaseD>>
    /\ sim = Construct(traffic_files)
    /\ lock = "free"
    /\ pc = "idle"
    /\ step_left = 0
    /\ step_events = <<>>
    /\ events_start = 0
    /\ last = Ret("init", "ok", 0)
    /\ cmds = 0
    /\ req = NoReq
    /\ resp = NoResp
    /\ dashboard = DashboardAtImport

SpecFaulty == InitFaulty /\ [][NextTrip]_vars

----------------------------------------------------------------------------
\* Transport threads (Flask runs threaded): step() holds the lock from its
\* first to its last tick, and the calls that take no lock run at any point
\* of it, between the phases of a tick

\* calls per run of the threaded specification
MaxThreadCmds == 2

InitThreads ==
    /\ traffic_files = <<CaseB, CaseB>>
    /\ sim = Construct(traffic_files)
    /\ lock = "free"
    /\ pc = "idle"
    /\ step_left = 0
    /\ step_events = <<>>
    /\ events_start = 0
    /\ last = Ret("init", "ok", 0)
    /\ cmds = 0
    /\ req = NoReq
    /\ resp = NoResp
    /\ dashboard = DashboardAtImport

\* step(n) enters "with self.lock"
StepAcquire(n) ==
    /\ lock = "free"
    /\ pc = "idle"
    /\ lock' = "step"
    /\ pc' = "arrivals"
    /\ step_left' = n
    /\ step_events' = <<>>
    /\ UNCHANGED <<dashboard, sim, traffic_files, events_start, last, cmds, req, resp>>

\* self.state.tick += 1, then the first phase of _process_tick; the
\* assertion leaves step() through "with", which releases the lock
StepArrivals ==
    /\ pc = "arrivals"
    /\ LET a == _process_arrivals([sim EXCEPT !.tick = @ + 1])
       IN /\ sim' = a.st
          /\ events_start' = Len(sim.events)
          /\ pc' = IF a.raised THEN "idle" ELSE "move"
          /\ lock' = IF a.raised THEN "free" ELSE lock
          /\ last' = IF a.raised THEN Ret("step", "raised", step_left) ELSE last
    /\ UNCHANGED <<dashboard, traffic_files, step_left, step_events, cmds, req, resp>>

StepMove ==
    /\ pc = "move"
    /\ sim' = _move_elevators(sim)
    /\ pc' = "stops"
    /\ UNCHANGED <<dashboard, traffic_files, lock, step_left, step_events, events_start, last, cmds,
                   req, resp>>

\* last phase of the tick, the slice self.state.events[events_start:], and
\* the cutoff test of step()
StepStops ==
    /\ pc = "stops"
    /\ LET s1 == _process_elevator_stops(sim)
           done == ~CutoffDue(s1) /\ step_left = 1
       IN /\ sim' = s1
          /\ step_events' = step_events \o PyDrop(s1.events, events_start)
          /\ step_left' = step_left - 1
          /\ pc' = IF CutoffDue(s1) THEN "blocked" ELSE IF done THEN "idle" ELSE "arrivals"
          /\ lock' = IF done THEN "free" ELSE lock
          /\ last' = IF CutoffDue(s1) THEN Ret("step", "blocked", step_left)
                     ELSE IF done THEN Ret("step", "ok", step_left)
                     ELSE last
    /\ UNCHANGED <<dashboard, traffic_files, events_start, cmds, req, resp>>

NextThreads ==
    \/ \E n \in 1..MaxStepN : StepAcquire(n)
    \/ StepArrivals
    \/ StepMove
    \/ StepStops
    \/ Commands(MaxThreadCmds)
    \/ GetStateRead
    \/ GetStateSend

SpecThreads == InitThreads /\ [][NextThreads]_vars

----------------------------------------------------------------------------
\* Uninterrupted trips: a client that sends an immediate target only to a
\* STOPPED elevator (pending targets at any time)

DurationE == 16

\* calls of elevator_go_to_floor per run
MaxJourneyCmds == 2

\* one car of capacity 1, three floors; a passenger from floor 0 to floor 1,
\* two passengers waiting on floor 1 for floor 2, one on the top floor
CaseE == [building |-> Building(1, 3, 1, DurationE),
          traffic |-> <<Entry(0, 1, 1), Entry(1, 2, 1), Entry(1, 2, 2), Entry(2, 0, 1)>>]

InitJourney ==
    /\ traffic_files = <<CaseE>>
    /\ sim = Construct(traffic_files)
    /\ lock = "free"
    /\ pc = "idle"
    /\ step_left = 0
    /\ step_events = <<>>
    /\ events_start = 0
    /\ last = Ret("init", "ok", 0)
    /\ cmds = 0
    /\ req = NoReq
    /\ resp = NoResp
    /\ dashboard = DashboardAtImport

NextJourney ==
    \/ \E n \in 1..MaxStepN : Step(n)
    \/ /\ cmds < MaxJourneyCmds
       /\ \E f \in DOMAIN sim.floors : GoToFloor(0, f, FALSE)
    \/ /\ cmds < MaxJourneyCmds
       /\ sim.elevators[0].run_status = STOPPED
       /\ \E f \in DOMAIN sim.floors : GoToFloor(0, f, TRUE)

SpecJourney == InitJourney /\ [][NextJourney]_vars

----------------------------------------------------------------------------
\* The metrics report as a function of the passenger table

\* passengers in the table, ticks a passenger waits, ticks of a ride
MaxSample == 5
MaxWait == 5
RideTicks == 7

\* passenger table of n passengers who arrived at tick 0 on floor 0 for
\* floor 1 and were picked up at tick pick[id]; the first `done` of them
\* have been dropped off, the others are still in a car
PassengerTable(n, done, pick) ==
    [id \in 1..n |->
       [NewPassenger(id, 0, 1, 0) EXCEPT
          !.pickup_tick = pick[id],
          !.dropoff_tick = IF id <= done THEN pick[id] + RideTicks ELSE 0,
          !.elevator_id = 0]]

\* _calculate_metrics reads nothing but the passenger table (and the energy
\* counters, which nothing writes): the table is drawn from the bounded sets
InitMetrics ==
    /\ traffic_files = <<CaseA>>
    /\ \E n \in 0..MaxSample : \E done \in 0..n : \E pick \in [1..n -> 1..MaxWait] :
         sim = [Construct(traffic_files) EXCEPT
                  !.tick = MaxWait + RideTicks,
                  !.traffic_queue = <<>>,
                  !.next_passenger_id = n + 1,
                  !.passengers = PassengerTable(n, done, pick)]
    /\ lock = "free"
    /\ pc = "idle"
    /\ step_left = 0
    /\ step_events = <<>>
    /\ events_start = 0
    /\ last = Ret("init", "ok", 0)
    /\ cmds = 0
    /\ req = NoReq
    /\ resp = NoResp
    /\ dashboard = DashboardAtImport

\* the metrics of the current state are computed and reported
GetMetrics ==
    /\ resp.phase = "none"
    /\ resp' = [phase |-> "metrics", live |-> FALSE, snap |-> <<>>,
                body |-> _calculate_metrics(sim)]
    /\ last' = Ret("metrics", "ok", MetricsDone(sim))
    /\ UNCHANGED <<dashboard, sim, traffic_files, lock, pc, step_left, step_events, events_start,
                   cmds, req>>

NextMetrics == GetMetrics

SpecMetrics == InitMetrics /\ [][NextMetrics]_vars

----------------------------------------------------------------------------
\* The dashboard serving start, stop and state requests on its threads,
\* while controller processes run and exit

InitDashboard ==
    /\ traffic_files = <<CaseB>>
    /\ sim = Construct(traffic_files)
    /\ lock = "free"
    /\ pc = "idle"
    /\ step_left = 0
    /\ step_events = <<>>
    /\ events_start = 0
    /\ last = Ret("init", "ok", 0)
    /\ cmds = 0
    /\ req = NoReq
    /\ resp = NoResp
    /\ dashboard = DashboardAtImport

SimulatorUntouched ==
    UNCHANGED <<sim, traffic_files, lock, pc, step_left, step_events, events_start, last,
                cmds, req, resp>>

\* a thread enters "with _controller_lock" of _start_controller (Popen can
\* still create a process)
StartEnter(t) ==
    /\ dashboard.pc[t] = "idle"
    /\ dashboard._controller_lock = NoThread
    /\ \E p \in Processes : dashboard.processes[p] = "unborn"
    /\ dashboard' = [dashboard EXCEPT !._controller_lock = t, !.pc[t] = "start"]
    /\ SimulatorUntouched

\* the body of _start_controller; client.reset() resets the simulator or
\* raises (the exception is logged and ignored)
StartBody(t, reset_ok, popen_ok) ==
    /\ dashboard.pc[t] = "start"
    /\ LET r == _start_controller(dashboard, popen_ok)
       IN /\ dashboard' = [r.d EXCEPT !._controller_lock = NoThread,
                                      !.pc[t] = "idle",
                                      !.ret[t] = IF r.success THEN "started" ELSE "failed"]
          /\ sim' = IF r.reset /\ reset_ok THEN ResetBody(sim) ELSE sim
    /\ UNCHANGED <<traffic_files, lock, pc, step_left, step_events, events_start, last,
                   cmds, req, resp>>

\* a thread enters "with _controller_lock" of _stop_controller(force)
StopEnter(t, force) ==
    /\ dashboard.pc[t] = "idle"
    /\ dashboard._controller_lock = NoThread
    /\ dashboard' = [dashboard EXCEPT !._controller_lock = t, !.pc[t] = "stop",
                                      !.force[t] = force]
    /\ SimulatorUntouched

\* _stop_controller up to the call of wait(): failure when no controller is
\* running, else terminate() and wait(timeout=5) on the tracked process
StopTerminate(t) ==
    /\ dashboard.pc[t] = "stop"
    /\ LET r == _controller_running(dashboard)
       IN dashboard' =
            IF r.running
            THEN [r.d EXCEPT !.pc[t] = "wait", !.waited[t] = r.d._controller_process]
            ELSE [r.d EXCEPT !._controller_lock = NoThread, !.pc[t] = "idle",
                             !.force[t] = FALSE, !.ret[t] = "failed"]
    /\ SimulatorUntouched

\* wait() returns because the process has exited (on SIGTERM or by itself),
\* or raises TimeoutExpired because it is still alive
StopWait(t, timed_out) ==
    /\ dashboard.pc[t] = "wait"
    /\ timed_out => dashboard.processes[dashboard.waited[t]] = "alive"
    /\ LET r == _stop_controller_wait(dashboard, dashboard.waited[t],
                                      dashboard.force[t], timed_out)
       IN dashboard' = [r.d EXCEPT !._controller_lock = NoThread,
                                   !.pc[t] = "idle",
                                   !.force[t] = FALSE,
                                   !.waited[t] = NoProcess,
                                   !.ret[t] = IF r.success THEN "stopped" ELSE "failed"]
    /\ SimulatorUntouched

\* _controller_running() called by a route without the lock, first half:
\* the reference is read and the process polled
StatusPoll(t) ==
    /\ dashboard.pc[t] = "idle"
    /\ dashboard' =
         IF dashboard._controller_process = NoProcess
         THEN [dashboard EXCEPT !.ret[t] = "not_running"]
         ELSE IF dashboard.processes[dashboard._controller_process] # "alive"
         THEN [dashboard EXCEPT !.pc[t] = "clear"]
         ELSE [dashboard EXCEPT !.ret[t] = "running"]
    /\ SimulatorUntouched

\* second half: the process had exited, _controller_process = None
StatusClear(t) ==
    /\ dashboard.pc[t] = "clear"
    /\ dashboard' = [dashboard EXCEPT !._controller_process = NoProcess,
                                      !.pc[t] = "idle",
                                      !.ret[t] = "not_running"]
    /\ SimulatorUntouched

\* a controller process ends (its run is over, or SIGTERM takes effect)
ControllerExits(p) ==
    /\ dashboard.processes[p] = "alive"
    /\ dashboard' = [dashboard EXCEPT !.processes[p] = "exited"]
    /\ SimulatorUntouched

NextDashboard ==
    \/ \E t \in DashboardThreads : StartEnter(t)
    \/ \E t \in DashboardThreads : \E reset_ok, popen_ok \in BOOLEAN :
         StartBody(t, reset_ok, popen_ok)
    \/ \E t \in DashboardThreads : \E force \in BOOLEAN : StopEnter(t, force)
    \/ \E t \in DashboardThreads : StopTerminate(t)
    \/ \E t \in DashboardThreads : \E timed_out \in BOOLEAN : StopWait(t, timed_out)
    \/ \E t \in DashboardThreads : StatusPoll(t)
    \/ \E t \in DashboardThreads : StatusClear(t)
    \/ \E p \in Processes : ControllerExits(p)

SpecDashboard == InitDashboard /\ [][NextDashboard]_vars

----------------------------------------------------------------------------
\* Properties

AllQueued(s) ==
    UNION {Range(s.floors[f].up_queue) \cup Range(s.floors[f].down_queue) :
           f \in DOMAIN s.floors}

AllOnboard(s) == UNION {Range(s.elevators[i].passengers) : i \in DOMAIN s.elevators}

\* C1: every call of step(n) returns: no step is ever left waiting for the
\* simulation lock that it holds itself (cutoff tick included)
C1_StepAlwaysReturns == ~(pc = "blocked" /\ lock = "step")

\* C2: in every reachable state every elevator carries at most max_capacity
\* passengers
C2_OnboardWithinCapacity ==
    \A i \in DOMAIN sim.elevators :
        Len(sim.elevators[i].passengers) <= sim.elevators[i].max_capacity

\* a full car stopped with its up indicator lit at a floor where somebody
\* still waits to go up
C2_FullCarLeavesQueue ==
    \E i \in DOMAIN sim.elevators :
        /\ Len(sim.elevators[i].passengers) = sim.elevators[i].max_capacity
        /\ sim.elevators[i].run_status = STOPPED
        /\ sim.elevators[i].up
        /\ sim.elevators[i].current_floor \in DOMAIN sim.floors
        /\ sim.floors[sim.elevators[i].current_floor].up_queue # <<>>
        /\ \E p \in Range(sim.elevators[i].passengers) :
               sim.passengers[p].pickup_tick = sim.tick

\* C3: once step has taken the tick counter to max_duration_ticks, every
\* passenger is completed, those never picked up with dropoff_tick equal to
\* max_duration_ticks, nobody is left in a floor queue, and done counts all
C3_CutoffCompletesWaiting ==
    (last.op = "step" /\ sim.max_duration_ticks > 0
     /\ sim.tick = sim.max_duration_ticks)
    => /\ \A p \in DOMAIN sim.passengers :
              /\ status(sim.passengers[p]) = COMPLETED
              /\ sim.passengers[p].pickup_tick = 0
                 => sim.passengers[p].dropoff_tick = sim.max_duration_ticks
       /\ AllQueued(sim) = {}
       /\ MetricsDone(sim) = MetricsTotal(sim)

Rank(p) == IF status(p) = WAITING THEN 0 ELSE IF status(p) = IN_ELEVATOR THEN 1 ELSE 2

\* passenger p is completed by this step without ever having been picked up
SkipsElevator(p) ==
    /\ status(sim.passengers[p]) = WAITING
    /\ status(sim'.passengers[p]) = COMPLETED
    /\ sim'.passengers[p].pickup_tick = 0

\* C4 as claimed: no passenger moves back to an earlier status and none goes
\* from WAITING to COMPLETED without having been IN_ELEVATOR
C4_StatusNeverSkips ==
    [][\A p \in DOMAIN sim.passengers \cap DOMAIN sim'.passengers :
         /\ Rank(sim'.passengers[p]) >= Rank(sim.passengers[p])
         /\ ~SkipsElevator(p)]_vars

\* C4 amended: no passenger moves back to an earlier status, and only
\* force_complete_remaining_passengers takes a passenger from WAITING to
\* COMPLETED without IN_ELEVATOR; boarding and alighting go
\* WAITING -> IN_ELEVATOR -> COMPLETED
C4_StatusForwardSkipOnlyForced ==
    [][\A p \in DOMAIN sim.passengers \cap DOMAIN sim'.passengers :
         /\ Rank(sim'.passengers[p]) >= Rank(sim.passengers[p])
         /\ SkipsElevator(p) => last'.op = "force_complete"]_vars

\* a passenger carried to its destination: picked up, then dropped off by a step
C4_DeliveredPassenger ==
    \E p \in DOMAIN sim.passengers :
        /\ sim.passengers[p].pickup_tick > 0
        /\ sim.passengers[p].dropoff_tick > sim.passengers[p].pickup_tick
        /\ sim.passengers[p].origin # sim.passengers[p].destination
        /\ sim.elevators[sim.passengers[p].elevator_id].current_floor
             = sim.passengers[p].destination
        /\ last.op = "step"

\* C5: every passenger in the passenger table has origin # destination
C5_OriginDiffersFromDestination ==
    \A p \in DOMAIN sim.passengers :
        sim.passengers[p].origin # sim.passengers[p].destination

\* C6: right after force_complete_remaining_passengers a second call would
\* return 0 and change nothing
C6_ForceCompleteIdempotent ==
    last.op = "force_complete"
    => /\ ForceCompleteCount(sim) = 0
       /\ ForceCompleteBody(sim) = sim

\* The state in which the coming tick enters _process_elevator_stops
BeforeStops(s) == _move_elevators(_process_arrivals([s EXCEPT !.tick = @ + 1]).st)

RECURSIVE StopsBefore(_, _, _)
\* the state in which the loop of _process_elevator_stops reaches elevator i
StopsBefore(s, k, i) ==
    IF k >= i THEN s ELSE StopsBefore(StopElevator(s, k), k + 1, i)

\* Stop of elevator i of capacity 1 in state s (loop body of
\* _process_elevator_stops), a being the state after alighting and direction
\* commitment and r the state after the stop: with the up indicator lit and
\* somebody in the up queue, the empty car takes exactly the head of the up
\* queue (the earliest arrival) and the rest of the queue stays in order, its
\* next passenger now at the head and still waiting; a full car takes nobody.
\* The same for the down queue when the down indicator alone is lit.
CapacityOneStop(s, i, a, r) ==
    LET e == a.elevators[i]
        fl == e.current_floor
        upq == a.floors[fl].up_queue
        dnq == a.floors[fl].down_queue
    IN (s.elevators[i].run_status = STOPPED /\ e.max_capacity = 1)
       => /\ (e.up /\ upq # <<>>)
             => IF e.passengers = <<>>
                THEN /\ r.elevators[i].passengers = <<Head(upq)>>
                     /\ r.passengers[Head(upq)].pickup_tick = s.tick
                     /\ r.floors[fl].up_queue = Tail(upq)
                     /\ \A k \in 1..Len(upq) :
                          /\ a.passengers[Head(upq)].arrive_tick
                               <= a.passengers[upq[k]].arrive_tick
                          /\ k > 1 => status(r.passengers[upq[k]]) = WAITING
                     /\ Len(r.events) = Len(a.events) + 1
                     /\ r.events[Len(r.events)] =
                          Event(s.tick, PASSENGER_BOARD, i, fl, Head(upq), None)
                ELSE /\ r.elevators[i].passengers = e.passengers
                     /\ r.floors[fl].up_queue = upq
          /\ (e.down /\ ~e.up /\ dnq # <<>>)
             => IF e.passengers = <<>>
                THEN /\ r.elevators[i].passengers = <<Head(dnq)>>
                     /\ r.passengers[Head(dnq)].pickup_tick = s.tick
                     /\ r.floors[fl].down_queue = Tail(dnq)
                     /\ \A k \in 2..Len(dnq) : status(r.passengers[dnq[k]]) = WAITING
                     /\ Len(r.events) = Len(a.events) + 1
                ELSE /\ r.elevators[i].passengers = e.passengers
                     /\ r.floors[fl].down_queue = dnq

\* C8: with capacity 1, every stop of an empty elevator with the matching
\* indicator lit boards exactly the head of the queue (the earlier arrival)
\* and leaves the next passenger at the head of the same queue, where a later
\* stop of an elevator with a free place and the matching indicator takes it
C8_CapacityOneBoardsHead ==
    (pc = "idle" /\ lock = "free" /\ ~CutoffDue(sim))
    => \A i \in DOMAIN sim.elevators :
         LET s == StopsBefore(BeforeStops(sim), 0, i)
         IN CapacityOneStop(s, i, CommitAt(Alight(s, i), i), StopElevator(s, i))

\* two passengers waited on the same floor for the same direction, the cars
\* have capacity 1, the earlier arrival was boarded on one tick and the other
\* one on a later tick
C8_SecondBoardsLater ==
    \E p \in DOMAIN sim.passengers, q \in DOMAIN sim.passengers :
        /\ p < q
        /\ sim.passengers[p].origin = sim.passengers[q].origin
        /\ sim.passengers[p].destination > sim.passengers[p].origin
        /\ sim.passengers[q].destination > sim.passengers[q].origin
        /\ sim.passengers[q].arrive_tick <= sim.passengers[p].pickup_tick
        /\ sim.passengers[p].pickup_tick > 0
        /\ sim.passengers[q].pickup_tick > sim.passengers[p].pickup_tick
        /\ \A i \in DOMAIN sim.elevators : sim.elevators[i].max_capacity = 1

IsButtonOf(ev, p) ==
    /\ ev.type = (IF p.destination > p.origin THEN UP_BUTTON_PRESSED
                  ELSE DOWN_BUTTON_PRESSED)
    /\ ev.floor = p.origin
    /\ ev.passenger \in {p.id, None}

\* the events of a delivery ending with the alight event at index a of log:
\* button pressed, then board at the origin, then STOPPED_AT_FLOOR of the
\* same elevator at the destination on the tick of the alight event
DeliveryLogged(log, a, p) ==
    /\ log[a].floor = p.destination
    /\ \E b \in 1..a, k \in 1..a, st \in 1..a :
         /\ b < k /\ k < st /\ st < a
         /\ IsButtonOf(log[b], p)
         /\ log[k].type = PASSENGER_BOARD /\ log[k].passenger = p.id
         /\ log[k].floor = p.origin /\ log[k].elevator = log[a].elevator
         /\ log[st].type = STOPPED_AT_FLOOR /\ log[st].elevator = log[a].elevator
         /\ log[st].floor = p.destination /\ log[st].tick = log[a].tick

\* C9: for every passenger (with origin # destination) that an elevator
\* delivered, the event log holds, in this order, its button-pressed event,
\* its PASSENGER_BOARD at the origin, a STOPPED_AT_FLOOR of the carrying
\* elevator at the destination and its PASSENGER_ALIGHT, the last two on the
\* same tick
C9_DeliveryEventOrder ==
    \A a \in 1..Len(sim.events) :
        (/\ sim.events[a].type = PASSENGER_ALIGHT
         /\ sim.passengers[sim.events[a].passenger].origin
              # sim.passengers[sim.events[a].passenger].destination)
        => DeliveryLogged(sim.events, a, sim.passengers[sim.events[a].passenger])

\* C10: while step() is between two phases of a tick, no other call changes
\* the elevators, the passengers or the floor queues (every mutating call
\* waits for the simulation lock)
C10_MutationsUnderLock ==
    [][(pc \in {"move", "stops"} /\ pc' = pc)
       => /\ sim'.elevators = sim.elevators
          /\ sim'.passengers = sim.passengers
          /\ sim'.floors = sim.floors]_vars

\* C11: what a client receives from get_state is the state get_state read
\* inside the lock: tick, elevators, floors, passengers and the metrics all
\* describe that one between-ticks state, whatever ran before the response
\* was serialised
C11_SnapshotConsistent ==
    [][(resp.phase = "held" /\ resp'.phase = "sent")
       => json_response(resp, sim) = resp.snap]_vars

\* the tick of s without its arrival phase, and with it: the state before the
\* failing tick, and the completed states that tick could have led to
WholeTickStates(s) ==
    {s,
     _process_elevator_stops(_move_elevators([s EXCEPT !.tick = @ + 1])),
     _process_elevator_stops(
         _move_elevators(_process_arrivals([s EXCEPT !.tick = @ + 1]).st))}

RECURSIVE RaisedLeaves(_, _)
\* the states in which step(n) started in s may leave the engine when the
\* assertion fires in one of its ticks, the ticks before it being complete
RaisedLeaves(s, n) ==
    IF n = 0 THEN {}
    ELSE IF StepTick(s).outcome = "raised" THEN WholeTickStates(s)
    ELSE IF StepTick(s).outcome = "ok" THEN RaisedLeaves(StepTick(s).st, n - 1)
    ELSE {}

\* C12: when the assertion of the arrival phase fires in a tick of step(n),
\* the state left behind is the state before that tick or a state in which
\* that tick is complete (tick counter, traffic queue, passengers, floor
\* queues and event log all of the same tick)
C12_FailedTickIsWhole ==
    [][(last'.op = "step" /\ last'.outcome = "raised" /\ pc = "idle" /\ pc' = "idle")
       => sim' \in RaisedLeaves(sim, last'.count)]_vars

\* the step is a call of elevator_go_to_floor / elevator_set_indicators
IsGoToFloor == last'.op = "go_to_floor" /\ cmds' = cmds + 1

IsSetIndicators == last'.op = "set_indicators" /\ cmds' = cmds + 1

\* C13: elevator_go_to_floor with an unknown elevator id or a floor outside
\* [0, floors-1], and elevator_set_indicators with an unknown elevator id,
\* return normally and leave the whole simulation state unchanged
C13_BadTargetsIgnored ==
    [][/\ (IsGoToFloor /\ (req'.elevator \notin DOMAIN sim.elevators
                            \/ req'.floor \notin DOMAIN sim.floors))
          => (sim' = sim /\ last'.outcome = "ok")
       /\ (IsSetIndicators /\ req'.elevator \notin DOMAIN sim.elevators)
          => (sim' = sim /\ last'.outcome = "ok")]_vars

\* a go_to_floor to the floor just above the top floor was answered while
\* the addressed elevator was on its way
C13_IgnoredWhileMoving ==
    /\ last.op = "go_to_floor"
    /\ req.elevator \in DOMAIN sim.elevators
    /\ req.floor = NumFloors(sim)
    /\ sim.elevators[req.elevator].run_status # STOPPED
    /\ sim.elevators[req.elevator].next_target_floor = None

\* elevator i keeps its active target from s to r unless r commits the
\* pending target of s
TargetKeptOrCommitted(s, r, i) ==
    \/ r.elevators[i].target_floor = s.elevators[i].target_floor
    \/ /\ s.elevators[i].next_target_floor # None
       /\ r.elevators[i].target_floor = s.elevators[i].next_target_floor
       /\ r.elevators[i].next_target_floor = None

\* C14: a non-immediate elevator_go_to_floor writes the pending target of the
\* addressed elevator and nothing else; the immediate variant writes the
\* active target and nothing else; set_indicators, add_passenger and force
\* completion leave the active targets alone; in a tick, arrivals and
\* movement leave them alone and stop resolution changes an active target
\* only by committing the pending one
C14_DeferredTarget ==
    [][/\ (IsGoToFloor /\ req'.elevator \in DOMAIN sim.elevators
           /\ req'.floor \in DOMAIN sim.floors)
          => sim' = IF req'.immediate
                    THEN [sim EXCEPT !.elevators[req'.elevator].target_floor = req'.floor]
                    ELSE [sim EXCEPT !.elevators[req'.elevator].next_target_floor
                                        = req'.floor]
       /\ (cmds' = cmds + 1
           /\ last'.op \in {"set_indicators", "add_passenger", "force_complete"})
          => \A i \in DOMAIN sim.elevators :
                sim'.elevators[i].target_floor = sim.elevators[i].target_floor
       /\ (pc = "idle" /\ lock = "free")
          => \A i \in DOMAIN sim.elevators :
                /\ BeforeStops(sim).elevators[i].target_floor
                     = sim.elevators[i].target_floor
                /\ BeforeStops(sim).elevators[i].next_target_floor
                     = sim.elevators[i].next_target_floor
                /\ TargetKeptOrCommitted(BeforeStops(sim),
                                         _process_elevator_stops(BeforeStops(sim)), i)]_vars

\* a non-immediate go_to_floor was answered while the addressed elevator was
\* on its way to another floor: the new floor is pending, the active target
\* is the old one
C14_PendingWhileMoving ==
    /\ last.op = "go_to_floor"
    /\ ~req.immediate
    /\ req.elevator \in DOMAIN sim.elevators
    /\ req.floor \in DOMAIN sim.floors
    /\ sim.elevators[req.elevator].run_status # STOPPED
    /\ sim.elevators[req.elevator].next_target_floor = req.floor
    /\ sim.elevators[req.elevator].target_floor # req.floor

\* the step is a call of step() run to its end (or to the point it stops at)
IsStep == last'.op = "step" /\ pc = "idle" /\ lock = "free" /\ sim' # sim

RECURSIVE Ticks(_, _)
\* n ticks from s: arrivals, movement, stop resolution, in this order
Ticks(s, n) ==
    IF n = 0 THEN s
    ELSE Ticks(_process_elevator_stops(
                   _move_elevators(_process_arrivals([s EXCEPT !.tick = @ + 1]).st)),
               n - 1)

\* what step(n) has done when it returns normally: tick advanced by n, n
\* whole ticks run, and the events returned are the events appended to the
\* log by the call, in log order, with ticks in (t0, t0 + n]
StepContract ==
    /\ sim'.tick = sim.tick + last'.count
    /\ sim' = Ticks(sim, last'.count)
    /\ Len(sim'.events) >= Len(sim.events)
    /\ SubSeq(sim'.events, 1, Len(sim.events)) = sim.events
    /\ step_events' = SubSeq(sim'.events, Len(sim.events) + 1, Len(sim'.events))
    /\ \A k \in 1..Len(step_events') :
          /\ step_events'[k].tick > sim.tick
          /\ step_events'[k].tick <= sim.tick + last'.count

\* C15: every step(n) on a loaded simulation whose arrivals are well formed
\* returns, having advanced the tick by exactly n through arrivals, movement
\* and stop resolution once per tick, and returns exactly the events the
\* call appended to the log, each with a tick in (t0, t0 + n]
C15_StepAdvancesAndReturns ==
    [][(IsStep /\ last'.outcome # "raised")
       => (last'.outcome = "ok" /\ StepContract)]_vars

\* the same for the calls of step(n) that return (used to tell what is
\* left of C15 without the lock re-entry at the cutoff)
StepReturnsContract == [][(IsStep /\ last'.outcome = "ok") => StepContract]_vars

\* the traffic case document the simulation has loaded
CurrentCase == traffic_files[sim.current_traffic_index + 1]

\* the state is the initial state of case document doc: tick 0, nothing
\* logged, nobody registered, every elevator STOPPED and empty at floor 0,
\* the cutoff flag cleared, the entries of the case pending in tick order
\* and its duration in force
InitialStateOf(s, doc) ==
    /\ s.tick = 0
    /\ s.passengers = <<>>
    /\ s.events = <<>>
    /\ NumElevators(s) = doc.building.elevators
    /\ NumFloors(s) = doc.building.floors
    /\ \A i \in DOMAIN s.elevators :
          s.elevators[i] = NewElevator(doc.building.elevator_capacity)
    /\ \A f \in DOMAIN s.floors : s.floors[f] = NewFloor
    /\ ~s.force_completed
    /\ s.max_duration_ticks = doc.building.duration
    /\ Len(s.traffic_queue) = Len(doc.traffic)
    /\ \A k \in 1..Len(s.traffic_queue) :
          /\ s.traffic_queue[k].id = k
          /\ Entry(s.traffic_queue[k].origin, s.traffic_queue[k].destination,
                   s.traffic_queue[k].tick) = SortByTick(doc.traffic)[k]

\* C16: right after reset() the simulation is in the initial state of the
\* traffic case that is loaded, its entries and its duration included
C16_ResetRestartsCase ==
    (last.op = "reset" /\ traffic_files # <<>>) => InitialStateOf(sim, CurrentCase)

\* the step is a call of next_traffic_round
IsNextRound == last'.op = "next_traffic_round" /\ cmds' = cmds + 1

\* no case follows the current one
NoNextCase ==
    traffic_files = <<>> \/ sim.current_traffic_index + 1 >= Len(traffic_files)

\* the call has moved to the next case and rebuilt the state for it
MovedToNextCase ==
    /\ sim'.current_traffic_index = sim.current_traffic_index + 1
    /\ InitialStateOf(sim', traffic_files[sim.current_traffic_index + 2])

\* C17: next_traffic_round returns false and changes nothing when there is
\* no traffic file or the current case is the last one; otherwise it returns
\* true, the index is one higher and the state is the initial state of the
\* new case
C17_NextRound ==
    [][IsNextRound
       => IF NoNextCase THEN last'.outcome = "false" /\ sim' = sim
          ELSE last'.outcome = "true" /\ MovedToNextCase]_vars

\* the same for the calls that return (used to tell what is left of C17
\* while no step is stuck holding the lock)
NextRoundReturnsContract ==
    [][(IsNextRound /\ last'.outcome # "blocked")
       => IF NoNextCase THEN last'.outcome = "false" /\ sim' = sim
          ELSE last'.outcome = "true" /\ MovedToNextCase]_vars

\* the ticks of the log never decrease
MonotoneLog(log) == \A k \in 1..(Len(log) - 1) : log[k].tick <= log[k + 1].tick

\* log2 is log1 followed by events stamped with ticks from t1 to t2
Appended(log1, log2, t1, t2) ==
    /\ Len(log2) >= Len(log1)
    /\ SubSeq(log2, 1, Len(log1)) = log1
    /\ \A k \in (Len(log1) + 1)..Len(log2) : log2[k].tick >= t1 /\ log2[k].tick <= t2

\* C18: within a run (no reset, no change of the traffic case) every call
\* leaves the events already logged where and as they are and appends only
\* events stamped with the tick current when they are appended; the ticks of
\* the log never decrease; get_events(since) changes nothing and returns the
\* events with tick > since, which are a suffix of the log
C18_LogAppendOnly ==
    [][/\ (last'.op \notin {"reset", "next_traffic_round"})
          => /\ Appended(sim.events, sim'.events,
                         IF last'.op = "step" THEN sim.tick + 1 ELSE sim.tick, sim'.tick)
             /\ MonotoneLog(sim'.events)
       /\ (last'.op = "get_events" /\ cmds' = cmds + 1)
          => /\ sim' = sim
             /\ last'.count <= Len(sim.events)
             /\ get_events(sim, req'.since) = PyDrop(sim.events, Len(sim.events) - last'.count)
             /\ \A k \in 1..(Len(sim.events) - last'.count) :
                   sim.events[k].tick <= req'.since]_vars

\* get_events(1) has returned a proper, non-empty suffix of the log
C18_SuffixReturned ==
    /\ last.op = "get_events"
    /\ req.since = 1
    /\ last.count > 0
    /\ last.count < Len(sim.events)

\* elevator e stands exactly on its active target floor
AtTarget(e) == e.floor_up_position = 0 /\ e.current_floor = e.target_floor

C20_IndicatorsExclusive ==
    (pc = "idle" /\ lock = "free")
    => \A i \in DOMAIN sim.elevators :
         LET s == StopsBefore(BeforeStops(sim), 0, i)
             a == CommitAt(Alight(s, i), i)
         IN s.elevators[i].run_status = STOPPED
            => ~(a.elevators[i].up /\ a.elevators[i].down)

\* C21: between ticks an elevator that is not STOPPED (it has left STOPPED in
\* the last tick, or is on its way) has neither indicator lit
C21_IndicatorsClearedOnDeparture ==
    (pc = "idle" /\ lock = "free")
    => \A i \in DOMAIN sim.elevators :
         sim.elevators[i].run_status # STOPPED
         => (~sim.elevators[i].up /\ ~sim.elevators[i].down)

\* a step of the current run has processed a tick at or after the configured
\* duration (reset and case loading put the tick back to 0)
CutoffReached(s) == ~Unloaded(s) /\ s.tick > 0 /\ s.tick >= s.max_duration_ticks

\* C22: in every state from the cutoff tick on, until the next reset or case
\* load, every passenger of the passenger table is COMPLETED, no elevator
\* carries a passenger, no floor queue holds one, and no traffic entry is
\* left to arrive uncompleted
C22_CutoffCompletesAll ==
    CutoffReached(sim)
    => /\ \A p \in DOMAIN sim.passengers : status(sim.passengers[p]) = COMPLETED
       /\ AllOnboard(sim) = {}
       /\ AllQueued(sim) = {}

\* position of an elevator in sub-floor units, and of its active target
Pos(e) == e.current_floor * 10 + e.floor_up_position

TargetPos(e) == e.target_floor * 10

Dist(a, b) == IF a >= b THEN a - b ELSE b - a

\* C23: between ticks every elevator is on a floor index of the building;
\* the movement phase of the coming tick moves it by at most 2 units and
\* never from one side of its target position to the other
C23_NoTeleport ==
    (pc = "idle" /\ lock = "free")
    => \A i \in DOMAIN sim.elevators :
         LET e == sim.elevators[i]
             m == BeforeStops(sim).elevators[i]
         IN /\ e.current_floor \in DOMAIN sim.floors
            /\ Dist(Pos(m), Pos(e)) <= 2
            /\ ~(Pos(e) < TargetPos(e) /\ Pos(m) > TargetPos(e))
            /\ ~(Pos(e) > TargetPos(e) /\ Pos(m) < TargetPos(e))

\* the passengers elevator i takes in at its stop: a is the state after
\* alighting and direction commitment, r the state after the stop
BoardedAt(a, r, i) ==
    Range(r.elevators[i].passengers) \ Range(a.elevators[i].passengers)

\* Stop of elevator i (loop body of _process_elevator_stops): every passenger
\* taken in comes from a queue of the floor of the stop, from the up queue
\* only with the up indicator lit and from the down queue only with the down
\* indicator lit; with the up indicator alone nobody with a destination below
\* the floor boards, with the down indicator alone nobody with a destination
\* above it
BoardsWithIndicator(a, r, i) ==
    LET e == a.elevators[i]
        floor == a.floors[e.current_floor]
    IN \A p \in BoardedAt(a, r, i) :
         /\ p \in Range(floor.up_queue) \cup Range(floor.down_queue)
         /\ p \in Range(floor.up_queue) => e.up
         /\ p \in Range(floor.down_queue) => e.down
         /\ (e.up /\ ~e.down)
            => a.passengers[p].destination > a.passengers[p].origin
         /\ (e.down /\ ~e.up)
            => a.passengers[p].destination <= a.passengers[p].origin

CompletedIds(s) == {p \in DOMAIN s.passengers : status(s.passengers[p]) = COMPLETED}

\* the samples of the report: the times of the completed passengers
WaitSample(s) == [p \in CompletedIds(s) |-> wait_time(s.passengers[p])]

SystemSample(s) == [p \in CompletedIds(s) |-> system_time(s.passengers[p])]

\* index min(floor(len*95/100), len-1) for a sample of n values
RankIndex(n) == IF (n * 95) \div 100 < n - 1 THEN (n * 95) \div 100 ELSE n - 1

\* v is the element at index RankIndex of the ascending-sorted sample T: it is
\* a value of the sample, at most RankIndex values are smaller and more than
\* RankIndex values are not greater; v is 0 for the empty sample
NearestRank(T, v) ==
    IF DOMAIN T = {} THEN v = 0
    ELSE /\ \E p \in DOMAIN T : T[p] = v
         /\ Cardinality({p \in DOMAIN T : T[p] < v}) <= RankIndex(Cardinality(DOMAIN T))
         /\ Cardinality({p \in DOMAIN T : T[p] <= v}) > RankIndex(Cardinality(DOMAIN T))

\* the sample holds each of 1, 2, 3, 4, 5 once
IsOneToFive(T) ==
    /\ Cardinality(DOMAIN T) = 5
    /\ {T[p] : p \in DOMAIN T} = 1..5

\* C25: the reported 95th percentiles of wait and system time are the
\* elements at index min(floor(len*95/100), len-1) of the ascending-sorted
\* samples of the completed passengers' times, 5 for the wait sample
\* 1, 2, 3, 4, 5 in whatever order, and 0 when no passenger is completed
C25_P95NearestRank ==
    resp.phase = "metrics"
    => /\ NearestRank(WaitSample(sim), resp.body.p95_wait)
       /\ NearestRank(SystemSample(sim), resp.body.p95_system)
       /\ IsOneToFive(WaitSample(sim)) => resp.body.p95_wait = 5
       /\ CompletedIds(sim) = {}
          => (resp.body.p95_wait = 0 /\ resp.body.p95_system = 0)

\* the report for five completed passengers whose waits are 1..5, the longest
\* wait registered first: the 95th percentile of the wait is 5
C25_ReportForOneToFive ==
    /\ resp.phase = "metrics"
    /\ IsOneToFive(WaitSample(sim))
    /\ wait_time(sim.passengers[1]) = 5
    /\ resp.body.p95_wait = 5
    /\ resp.body.p95_system = 5 + RideTicks

\* ticks within which every trip in the buildings of the cases is over
MaxTripTicks == 20

RECURSIVE MovedFor(_, _)
\* the state after the movement phases of the next k ticks, no command being
\* issued (stop resolution leaves an elevator that is not STOPPED alone)
MovedFor(s, k) ==
    IF k = 0 THEN s ELSE MovedFor(_move_elevators([s EXCEPT !.tick = @ + 1]), k - 1)

\* STOPPED_AT_FLOOR events of elevator i at floor fl in the log after its
\* first `from` events
ArrivalEvents(s, from, i, fl) ==
    {k \in (from + 1)..Len(s.events) :
        /\ s.events[k].type = STOPPED_AT_FLOOR
        /\ s.events[k].elevator = i
        /\ s.events[k].floor = fl}

\* C26: between ticks, every elevator whose active target is not its current
\* position is, with no further command, STOPPED on the target floor at
\* offset 0 within MaxTripTicks ticks, and exactly one STOPPED_AT_FLOOR event
\* of this elevator and floor has been emitted on the way
C26_TripCompletes ==
    (pc = "idle" /\ lock = "free")
    => \A i \in DOMAIN sim.elevators :
         Pos(sim.elevators[i]) # TargetPos(sim.elevators[i])
         => /\ AtTarget(MovedFor(sim, MaxTripTicks).elevators[i])
            /\ MovedFor(sim, MaxTripTicks).elevators[i].run_status = STOPPED
            /\ Cardinality(ArrivalEvents(MovedFor(sim, MaxTripTicks), Len(sim.events),
                                         i, sim.elevators[i].target_floor)) = 1

\* The movement phase of the coming tick takes elevator i from CONSTANT_SPEED
\* into START_DOWN: a CONSTANT_SPEED elevator that moves one unit (it moves
\* two units when it stays in CONSTANT_SPEED and none when it is skipped)
EntersDeceleration(s, i) ==
    /\ s.elevators[i].run_status = CONSTANT_SPEED
    /\ Dist(Pos(s.elevators[i]), Pos(BeforeStops(s).elevators[i])) = 1

\* C27 as claimed: the elevator is STOPPED at its target at the end of the
\* tick in which it entered START_DOWN
C27_OneDeceleratingTick ==
    (pc = "idle" /\ lock = "free")
    => \A i \in DOMAIN sim.elevators :
         EntersDeceleration(sim, i)
         => /\ BeforeStops(sim).elevators[i].run_status = STOPPED
            /\ AtTarget(BeforeStops(sim).elevators[i])

\* elevator i, d units away from its target, is STOPPED at the target after
\* the movement phases of d ticks and not STOPPED after those of d - 1 ticks
StopsAfter(s, i, d) ==
    /\ MovedFor(s, d).elevators[i].run_status = STOPPED
    /\ AtTarget(MovedFor(s, d).elevators[i])
    /\ MovedFor(s, d - 1).elevators[i].run_status # STOPPED

\* What the engine does instead: an elevator enters START_DOWN at a remaining distance d of 1
\* to 3 units and moves one unit towards the target in that tick; it is
\* STOPPED at the end of that tick only if d = 1, otherwise it stays in
\* START_DOWN, and with no further command it is STOPPED at the target at
\* the end of the d-th decelerating tick, not earlier
C27_DecelerationByUnits ==
    (pc = "idle" /\ lock = "free")
    => \A i \in DOMAIN sim.elevators :
         EntersDeceleration(sim, i)
         => /\ Dist(Pos(sim.elevators[i]), TargetPos(sim.elevators[i])) \in 1..DecelerationThreshold
            /\ Dist(Pos(BeforeStops(sim).elevators[i]), TargetPos(sim.elevators[i]))
                 = Dist(Pos(sim.elevators[i]), TargetPos(sim.elevators[i])) - 1
            /\ BeforeStops(sim).elevators[i].run_status =
                 (IF Dist(Pos(sim.elevators[i]), TargetPos(sim.elevators[i])) = 1
                  THEN STOPPED ELSE START_DOWN)
            /\ StopsAfter(sim, i, Dist(Pos(sim.elevators[i]), TargetPos(sim.elevators[i])))

\* after a tick an elevator is in START_DOWN two units away from its target:
\* it has entered START_DOWN three units away and the tick has not completed
\* the stop
C27_DeceleratingTwoUnitsAway ==
    /\ last.op = "step"
    /\ last.outcome = "ok"
    /\ \E i \in DOMAIN sim.elevators :
          /\ sim.elevators[i].run_status = START_DOWN
          /\ Dist(Pos(sim.elevators[i]), TargetPos(sim.elevators[i])) = 2

\* C28: every elevator that is in START_UP between two ticks, whatever
\* commands have been issued since the last tick, is in CONSTANT_SPEED or
\* STOPPED after the movement phase of the coming tick
C28_OneAcceleratingTick ==
    (pc = "idle" /\ lock = "free")
    => \A i \in DOMAIN sim.elevators :
         sim.elevators[i].run_status = START_UP
         => BeforeStops(sim).elevators[i].run_status \in {CONSTANT_SPEED, STOPPED}

\* C29: in the movement phase of every tick each elevator moves by the speed
\* of the run-state the phase leaves it in (1 unit in START_UP and START_DOWN,
\* 2 units in CONSTANT_SPEED, none when it was and stays STOPPED), every unit
\* of it towards the active target, and an elevator that is not STOPPED after
\* the phase has not stayed in place
C29_MovesBySpeed ==
    (pc = "idle" /\ lock = "free")
    => \A i \in DOMAIN sim.elevators :
         LET e == sim.elevators[i]
             m == BeforeStops(sim).elevators[i]
         IN /\ m.run_status # STOPPED
               => Dist(Pos(e), Pos(m)) = _get_movement_speed(m)
            /\ (e.run_status = STOPPED /\ m.run_status = STOPPED) => Pos(m) = Pos(e)
            /\ Dist(Pos(m), TargetPos(e)) = Dist(Pos(e), TargetPos(e)) - Dist(Pos(e), Pos(m))

\* the movement from position a to position b reaches or crosses the
\* position of floor f
Crosses(a, b, f) ==
    \/ a < 10 * f /\ 10 * f <= b
    \/ a > 10 * f /\ 10 * f >= b

\* the PASSING_FLOOR events of elevator i for floor f that the movement
\* phase of the coming tick emits
PassingEvents(s, i, f) ==
    {k \in (Len(s.events) + 1)..Len(BeforeStops(s).events) :
        /\ BeforeStops(s).events[k].type = PASSING_FLOOR
        /\ BeforeStops(s).events[k].elevator = i
        /\ BeforeStops(s).events[k].floor = f}

\* C30: on uninterrupted trips the movement phase of a tick emits one
\* PASSING_FLOOR event of an elevator for floor f, with the direction of
\* travel, if the elevator's position reaches or crosses 10*f on that tick
\* and f is not its target, and none otherwise (none for the floor it
\* departs from, none for the target floor), upwards and downwards
C30_PassingOnCrossing ==
    (pc = "idle" /\ lock = "free")
    => \A i \in DOMAIN sim.elevators : \A f \in DOMAIN sim.floors :
         /\ Cardinality(PassingEvents(sim, i, f)) =
              (IF Crosses(Pos(sim.elevators[i]), Pos(BeforeStops(sim).elevators[i]), f)
                  /\ f # sim.elevators[i].target_floor
               THEN 1 ELSE 0)
         /\ \A k \in PassingEvents(sim, i, f) :
              BeforeStops(sim).events[k].direction =
                (IF Pos(BeforeStops(sim).elevators[i]) > Pos(sim.elevators[i])
                 THEN DirUp ELSE DirDown)

\* positions, in the log of r after its first `from` events, of the events of
\* the given type of elevator i about passenger p
EventsAbout(r, from, type, i, p) ==
    {k \in (from + 1)..Len(r.events) :
        /\ r.events[k].type = type
        /\ r.events[k].elevator = i
        /\ r.events[k].passenger = p}

\* the passengers of elevator i in state s whose destination is its floor
Arrived(s, i) ==
    {p \in Range(s.elevators[i].passengers) :
        s.passengers[p].destination = s.elevators[i].current_floor}

\* free places boarding can use at the stop of elevator i in state s, the
\* places of the arrived passengers included
FreePlaces(s, i) ==
    s.elevators[i].max_capacity
      - Cardinality(Range(s.elevators[i].passengers) \ Arrived(s, i))

\* Stop of elevator i in state s with result r (loop body of
\* _process_elevator_stops): every arrived passenger has left the car, is
\* stamped with the tick and has one PASSENGER_ALIGHT event, which comes
\* before every PASSENGER_BOARD event of the stop; the others stay in the
\* car; the car takes in as many passengers as FreePlaces allows when the
\* queue of a lit indicator holds that many
AlightsThenBoards(s, r, i) ==
    /\ \A p \in Arrived(s, i) :
         /\ p \notin Range(r.elevators[i].passengers)
         /\ r.passengers[p].dropoff_tick = s.tick
         /\ Cardinality(EventsAbout(r, Len(s.events), PASSENGER_ALIGHT, i, p)) = 1
         /\ \A k \in EventsAbout(r, Len(s.events), PASSENGER_ALIGHT, i, p) :
              \A q \in DOMAIN r.passengers :
                \A j \in EventsAbout(r, Len(s.events), PASSENGER_BOARD, i, q) : k < j
    /\ \A p \in Range(s.elevators[i].passengers) \ Arrived(s, i) :
         /\ p \in Range(r.elevators[i].passengers)
         /\ r.passengers[p] = s.passengers[p]
    /\ Len(r.elevators[i].passengers) <= s.elevators[i].max_capacity
    /\ (r.elevators[i].up
        /\ Len(s.floors[s.elevators[i].current_floor].up_queue) >= FreePlaces(s, i))
       => Len(r.elevators[i].passengers) = s.elevators[i].max_capacity

\* C31: in the stop resolution of every tick, every STOPPED elevator,
\* whatever its indicators are, lets every passenger whose destination is its
\* floor leave (removed from the car, dropoff_tick = the tick, one
\* PASSENGER_ALIGHT event) before it boards anybody, and the freed places are
\* available to the boarding of the same tick
C31_AlightBeforeBoarding ==
    (pc = "idle" /\ lock = "free")
    => \A i \in DOMAIN sim.elevators :
         LET s == StopsBefore(BeforeStops(sim), 0, i)
         IN s.elevators[i].run_status = STOPPED
            => AlightsThenBoards(s, StopElevator(s, i), i)

\* on the last tick a full car of capacity 1 let its passenger out and took
\* the next one in at the same floor
C31_PlaceFreedAndTaken ==
    /\ last.op = "step"
    /\ last.outcome = "ok"
    /\ \E i \in DOMAIN sim.elevators, p \in DOMAIN sim.passengers, q \in DOMAIN sim.passengers :
          /\ sim.elevators[i].max_capacity = 1
          /\ sim.passengers[p].elevator_id = i
          /\ sim.passengers[p].dropoff_tick = sim.tick
          /\ sim.passengers[p].pickup_tick > 0
          /\ sim.passengers[q].pickup_tick = sim.tick
          /\ sim.elevators[i].passengers = <<q>>

\* Stop of a STOPPED elevator, e before the stop and c after it: with neither
\* indicator lit and a pending target, the pending target has become the
\* active one, no target is pending, and the indicator is up for a target
\* above the floor, down for one below, neither for the floor itself; with
\* an indicator lit, targets and indicators are as they were
CommitsPending(e, c) ==
    /\ (~e.up /\ ~e.down /\ e.next_target_floor # None)
       => /\ c.target_floor = e.next_target_floor
          /\ c.next_target_floor = None
          /\ c.up = (e.next_target_floor > e.current_floor)
          /\ c.down = (e.next_target_floor < e.current_floor)
    /\ (e.up \/ e.down)
       => /\ c.target_floor = e.target_floor
          /\ c.next_target_floor = e.next_target_floor
          /\ c.up = e.up
          /\ c.down = e.down

\* C32: in the stop resolution of every tick, a STOPPED elevator with neither
\* indicator lit and a pending target p gets p as its active target, no
\* pending target, and the indicator of the direction of p from its floor
\* (none if p is its floor); an elevator with an indicator lit keeps its
\* pending and active targets
C32_CommitPendingTarget ==
    (pc = "idle" /\ lock = "free")
    => \A i \in DOMAIN sim.elevators :
         LET s == StopsBefore(BeforeStops(sim), 0, i)
         IN s.elevators[i].run_status = STOPPED
            => CommitsPending(s.elevators[i], StopElevator(s, i).elevators[i])

\* after a tick an elevator stands above the ground floor with the down
\* indicator alone lit, a lower floor as its active target and no pending
\* target: stop resolution has committed a pending target below
C32_CommittedDownwards ==
    /\ last.op = "step"
    /\ last.outcome = "ok"
    /\ \E i \in DOMAIN sim.elevators :
          /\ sim.elevators[i].run_status = STOPPED
          /\ sim.elevators[i].down /\ ~sim.elevators[i].up
          /\ sim.elevators[i].target_floor < sim.elevators[i].current_floor
          /\ sim.elevators[i].next_target_floor = None

Min(a, b) == IF a <= b THEN a ELSE b

\* number of passengers the car e takes from the up queue upq, and then from
\* the down queue dnq: as many as are there and fit, from a queue whose
\* indicator is lit, the up queue first
UpTaken(e, upq) ==
    IF e.up THEN Min(Len(upq), e.max_capacity - Len(e.passengers)) ELSE 0

DownTaken(e, upq, dnq) ==
    IF e.down
    THEN Min(Len(dnq), e.max_capacity - Len(e.passengers) - UpTaken(e, upq))
    ELSE 0

\* Boarding at the stop of elevator i, a being the state after alighting and
\* direction commitment and r the state after the stop: the car has taken the
\* first UpTaken entries of the up queue and then the first DownTaken entries
\* of the down queue, in queue order, and the queues keep the rest in order
BoardsPrefix(a, r, i, e, upq, dnq) ==
    /\ r.elevators[i].passengers =
         e.passengers \o SubSeq(upq, 1, UpTaken(e, upq))
                      \o SubSeq(dnq, 1, DownTaken(e, upq, dnq))
    /\ r.floors[e.current_floor].up_queue =
         SubSeq(upq, UpTaken(e, upq) + 1, Len(upq))
    /\ r.floors[e.current_floor].down_queue =
         SubSeq(dnq, DownTaken(e, upq, dnq) + 1, Len(dnq))

\* every queue lists its passengers in the order of their arrival, and nobody
\* still waiting in a queue arrived before a passenger who boarded from the
\* same floor in the same direction after that arrival
NoOvertaking(s) ==
    /\ \A f \in DOMAIN s.floors :
         /\ \A j \in 1..Len(s.floors[f].up_queue) : \A k \in j..Len(s.floors[f].up_queue) :
              s.passengers[s.floors[f].up_queue[j]].arrive_tick
                <= s.passengers[s.floors[f].up_queue[k]].arrive_tick
         /\ \A j \in 1..Len(s.floors[f].down_queue) : \A k \in j..Len(s.floors[f].down_queue) :
              s.passengers[s.floors[f].down_queue[j]].arrive_tick
                <= s.passengers[s.floors[f].down_queue[k]].arrive_tick
    /\ \A p \in DOMAIN s.passengers, q \in DOMAIN s.passengers :
         (/\ s.passengers[p].origin = s.passengers[q].origin
          /\ (s.passengers[p].destination > s.passengers[p].origin)
               = (s.passengers[q].destination > s.passengers[q].origin)
          /\ s.passengers[p].arrive_tick < s.passengers[q].arrive_tick
          /\ s.passengers[q].pickup_tick > 0
          /\ s.passengers[p].dropoff_tick = 0)
         => (s.passengers[p].pickup_tick > 0
             /\ s.passengers[p].pickup_tick <= s.passengers[q].pickup_tick)

IdleEvents(r, from, i) ==
    {k \in (from + 1)..Len(r.events) :
        r.events[k].type = IDLE /\ r.events[k].elevator = i}

\* Stop of elevator i from state s, a being the state after alighting and
\* direction commitment and r the state after the stop: with both indicators
\* unlit there is one IDLE event, for the floor of the stop, and nobody
\* boards (car and queues as after alighting); with an indicator lit there
\* is no IDLE event
IdleOrBoards(s, a, r, i) ==
    IF ~a.elevators[i].up /\ ~a.elevators[i].down
    THEN /\ Cardinality(IdleEvents(r, Len(s.events), i)) = 1
         /\ r.events[Len(r.events)] =
              Event(s.tick, IDLE, i, a.elevators[i].current_floor, None, None)
         /\ r.elevators[i].passengers = a.elevators[i].passengers
         /\ r.floors = a.floors
         /\ r.passengers = a.passengers
    ELSE IdleEvents(r, Len(s.events), i) = {}

AfterArrivals(s) == _process_arrivals([s EXCEPT !.tick = @ + 1]).st

\* the entries of the traffic queue that are due at tick t, in queue order
DueAt(s, t) == SelectSeq(s.traffic_queue, LAMBDA te : te.tick <= t)

\* ids of the entries of q leaving from floor f upwards (up = TRUE) or not
\* upwards (up = FALSE), in the order of q
IdsFor(q, f, up) ==
    LET sel == SelectSeq(q, LAMBDA te : te.origin = f /\ (te.destination > te.origin) = up)
    IN [k \in 1..Len(sel) |-> sel[k].id]

\* positions, in the log of r after its first `from` events, of the button
\* events about passenger p
ButtonEvents(r, from, p) ==
    {k \in (from + 1)..Len(r.events) :
        /\ r.events[k].type \in {UP_BUTTON_PRESSED, DOWN_BUTTON_PRESSED}
        /\ r.events[k].passenger = p}

\* entry te, not admitted in state s, is admitted in state a at tick t: a
\* WAITING passenger with arrive_tick t and one button event of its
\* direction stamped t
AdmittedAt(s, a, te, t) ==
    /\ te.id \notin DOMAIN s.passengers
    /\ te.id \in DOMAIN a.passengers
    /\ a.passengers[te.id] = NewPassenger(te.id, te.origin, te.destination, t)
    /\ status(a.passengers[te.id]) = WAITING
    /\ Cardinality(ButtonEvents(a, Len(s.events), te.id)) = 1
    /\ \A k \in ButtonEvents(a, Len(s.events), te.id) :
         a.events[k] = Event(t, IF te.destination > te.origin THEN UP_BUTTON_PRESSED
                                ELSE DOWN_BUTTON_PRESSED,
                             None, te.origin, te.id, None)

Motion(m, i) ==
    <<Pos(m.elevators[i]), m.elevators[i].run_status, m.elevators[i].target_floor,
      m.events>>

\* C36: between ticks, for every elevator that is not STOPPED and every floor
\* f, a non-immediate go_to_floor(f) leaves the active target alone, makes f
\* the one pending target (whatever was pending before), and the movement
\* phase of the coming tick gives the elevator the same position and
\* run-state and logs the same events as without the command
C36_PendingDoesNotAlterTrip ==
    (pc = "idle" /\ lock = "free")
    => \A i \in DOMAIN sim.elevators : \A f \in DOMAIN sim.floors :
         sim.elevators[i].run_status # STOPPED
         => /\ elevator_go_to_floor(sim, i, f, FALSE).elevators[i] =
                 [sim.elevators[i] EXCEPT !.next_target_floor = f]
            /\ Motion(BeforeStops(elevator_go_to_floor(sim, i, f, FALSE)), i)
                 = Motion(BeforeStops(sim), i)

\* number of places of the sequence q that hold p
Occurrences(q, p) == Cardinality({k \in 1..Len(q) : q[k] = p})

\* the <<floor, direction>> queues and the elevators that list passenger p
QueuesOf(s, p) ==
    {<<f, "up">> : f \in {g \in DOMAIN s.floors : p \in Range(s.floors[g].up_queue)}}
    \cup {<<f, "down">> : f \in {g \in DOMAIN s.floors : p \in Range(s.floors[g].down_queue)}}

CarsOf(s, p) == {i \in DOMAIN s.elevators : p \in Range(s.elevators[i].passengers)}

\* the location of passenger p in state s agrees with its status
LocationMatchesStatus(s, p) ==
    IF status(s.passengers[p]) = WAITING
    THEN /\ QueuesOf(s, p) =
              {<<s.passengers[p].origin,
                 IF s.passengers[p].destination > s.passengers[p].origin
                 THEN "up" ELSE "down">>}
         /\ Occurrences(s.floors[s.passengers[p].origin].up_queue, p)
              + Occurrences(s.floors[s.passengers[p].origin].down_queue, p) = 1
         /\ CarsOf(s, p) = {}
    ELSE IF status(s.passengers[p]) = IN_ELEVATOR
    THEN /\ QueuesOf(s, p) = {}
         /\ Cardinality(CarsOf(s, p)) = 1
         /\ \A i \in CarsOf(s, p) : Occurrences(s.elevators[i].passengers, p) = 1
    ELSE QueuesOf(s, p) = {} /\ CarsOf(s, p) = {}

\* C37: between operations every WAITING passenger is once in the queue of
\* its direction on its origin floor and in no elevator, every IN_ELEVATOR
\* passenger once in one elevator and in no queue, every COMPLETED passenger
\* in no queue and no elevator
C37_LocationMatchesStatus ==
    (pc = "idle" /\ lock = "free")
    => \A p \in DOMAIN sim.passengers : LocationMatchesStatus(sim, p)

\* the state after the whole coming tick (no cutoff handling)
AfterTick(s) == _process_elevator_stops(BeforeStops(s))

\* C38: between ticks, no set_indicators command having been issued, every
\* elevator that is STOPPED at its active target with another floor f as its
\* pending target has f as its active target and no pending target after
\* the stop resolution of the coming tick, and is nearer to f after the
\* movement phase of the tick after that
C38_PendingCommittedAtNextStop ==
    (pc = "idle" /\ lock = "free")
    => \A i \in DOMAIN sim.elevators :
         (/\ sim.elevators[i].run_status = STOPPED
          /\ AtTarget(sim.elevators[i])
          /\ sim.elevators[i].next_target_floor # None
          /\ sim.elevators[i].next_target_floor # sim.elevators[i].current_floor)
         => /\ AfterTick(sim).elevators[i].target_floor = sim.elevators[i].next_target_floor
            /\ AfterTick(sim).elevators[i].next_target_floor = None
            /\ Dist(Pos(MovedFor(AfterTick(sim), 1).elevators[i]),
                    10 * sim.elevators[i].next_target_floor)
                 < Dist(Pos(sim.elevators[i]), 10 * sim.elevators[i].next_target_floor)

\* positions, in the log of r after its first `from` events, of the events of
\* the given type
EventsOfType(r, from, type) ==
    {k \in (from + 1)..Len(r.events) : r.events[k].type = type}

\* Loop body of _process_elevator_stops for elevator i in state s with
\* result r: no other elevator's passenger list changes; an elevator that is
\* not STOPPED keeps its list and no PASSENGER_BOARD or PASSENGER_ALIGHT
\* event is emitted; every such event of the stop is about elevator i, which
\* is STOPPED with offset 0 and stays so, names its floor, and that floor is
\* the origin of the boarding and the destination of the alighting
\* passenger; whoever joins the list has a PASSENGER_BOARD event and whoever
\* leaves it a PASSENGER_ALIGHT event
DoorsOnlyAtFloor(s, r, i) ==
    LET e == s.elevators[i]
        boards == EventsOfType(r, Len(s.events), PASSENGER_BOARD)
        alights == EventsOfType(r, Len(s.events), PASSENGER_ALIGHT)
    IN /\ \A k \in DOMAIN s.elevators \ {i} :
            r.elevators[k].passengers = s.elevators[k].passengers
       /\ e.run_status # STOPPED
          => /\ r.elevators[i].passengers = e.passengers
             /\ boards = {}
             /\ alights = {}
       /\ \A k \in boards \cup alights :
            /\ r.events[k].elevator = i
            /\ r.events[k].floor = e.current_floor
            /\ e.run_status = STOPPED
            /\ e.floor_up_position = 0
            /\ r.elevators[i].run_status = STOPPED
            /\ r.elevators[i].current_floor = e.current_floor
            /\ r.elevators[i].floor_up_position = 0
       /\ \A k \in boards :
            s.passengers[r.events[k].passenger].origin = e.current_floor
       /\ \A k \in alights :
            s.passengers[r.events[k].passenger].destination = e.current_floor
       /\ \A p \in Range(r.elevators[i].passengers) \ Range(e.passengers) :
            EventsAbout(r, Len(s.events), PASSENGER_BOARD, i, p) # {}
       /\ \A p \in Range(e.passengers) \ Range(r.elevators[i].passengers) :
            EventsAbout(r, Len(s.events), PASSENGER_ALIGHT, i, p) # {}

\* elevator i has the same passenger list in s and in r
SamePassengers(s, r, i) == r.elevators[i].passengers = s.elevators[i].passengers

\* C39: passengers enter and leave a car only at a floor. In every tick the
\* arrival and movement phases change no passenger list and emit no
\* PASSENGER_BOARD or PASSENGER_ALIGHT event, and every loop body of stop
\* resolution satisfies DoorsOnlyAtFloor; the commands go_to_floor,
\* set_indicators and add_passenger change no passenger list (force
\* completion is the one command that does)
C39_DoorsOnlyAtFloor ==
    (pc = "idle" /\ lock = "free")
    => \A i \in DOMAIN sim.elevators :
         /\ SamePassengers(sim, BeforeStops(sim), i)
         /\ EventsOfType(BeforeStops(sim), Len(sim.events), PASSENGER_BOARD) = {}
         /\ EventsOfType(BeforeStops(sim), Len(sim.events), PASSENGER_ALIGHT) = {}
         /\ DoorsOnlyAtFloor(StopsBefore(BeforeStops(sim), 0, i),
                             StopElevator(StopsBefore(BeforeStops(sim), 0, i), i), i)
         /\ \A f \in DOMAIN sim.floors :
              /\ SamePassengers(sim, elevator_go_to_floor(sim, i, f, TRUE), i)
              /\ SamePassengers(sim, elevator_go_to_floor(sim, i, f, FALSE), i)
              /\ \A d \in DOMAIN sim.floors :
                   SamePassengers(sim, add_passenger(sim, f, d), i)
         /\ \A up, down \in {"none", "true", "false"} :
              SamePassengers(sim, elevator_set_indicators(sim, i, up, down), i)

\* an elevator travelling with a passenger on board reaches its target
\* floor in the coming tick, and at that stop a passenger leaves and one
\* enters
C39_ArrivesAndExchanges ==
    /\ pc = "idle"
    /\ lock = "free"
    /\ \E i \in DOMAIN sim.elevators :
         /\ sim.elevators[i].run_status # STOPPED
         /\ sim.elevators[i].floor_up_position # 0
         /\ sim.elevators[i].passengers # <<>>
         /\ BeforeStops(sim).elevators[i].run_status = STOPPED
         /\ EventsOfType(StopElevator(StopsBefore(BeforeStops(sim), 0, i), i),
                         Len(BeforeStops(sim).events), PASSENGER_ALIGHT) # {}
         /\ EventsOfType(StopElevator(StopsBefore(BeforeStops(sim), 0, i), i),
                         Len(BeforeStops(sim).events), PASSENGER_BOARD) # {}

\* C40: the dashboard never has two live controller processes
C40_AtMostOneController == Cardinality(AliveProcesses(dashboard)) <= 1

\* every live controller process is the one _controller_process refers to
C40_AliveIsTracked ==
    \A p \in AliveProcesses(dashboard) : dashboard._controller_process = p

\* _start_controller creates a process only when _controller_running() is
\* False, and returns failure otherwise
C40_StartOnlyWhenNotRunning ==
    (\E p \in Processes : dashboard.processes[p] = "unborn")
    => \A popen_ok \in BOOLEAN :
      LET r == _start_controller(dashboard, popen_ok)
      IN IF _controller_running(dashboard).running
         THEN ~r.success /\ r.d = dashboard
         ELSE /\ r.success = popen_ok
              /\ AliveProcesses(r.d) \ AliveProcesses(dashboard)
                   = IF popen_ok THEN {r.d._controller_process} ELSE {}


====
